---- MODULE Spec2Model ----
(***************************************************************************)
(* Model of web_content_agent: the content-extraction pipeline             *)
(* (src/processor/content_processor.py) and the multi-format renderer      *)
(* (src/formatter/output_formatter.py).                                    *)
(*                                                                         *)
(* Text is a TLA+ string; Len, \o and SubSeq act on it character by        *)
(* character.  TLA+ strings are ASCII, so these characters stand for the   *)
(* non-ASCII and control characters the code names:                        *)
(*     "@"  U+3002 ideographic full stop      "$"  U+FF01 full-width !     *)
(*     "%"  U+FF1F full-width ?               "^"  U+0001 (a C0 control)   *)
(*     "~"  one emoji of the renderer's fixed set                          *)
(* The fixed Chinese labels of the renderers are written with ASCII        *)
(* letters, one letter per character: SS (source), TTTT (generated at),    *)
(* MMMM (style template), WW (words), CCC (characters), WWWWWWWW (the page *)
(* title), [IIII], [CCCC], [SSSS] (the section titles).  The style sheet   *)
(* of the HTML rendering is a fixed text, shortened to one rule.           *)
(* A parsed document (the BeautifulSoup tree) is a sequence of nodes in    *)
(* document order; each node names its parent by index (0 is the soup      *)
(* object itself), so a subtree is a contiguous run of the sequence.       *)
(***************************************************************************)
EXTENDS Integers, Sequences, FiniteSets, TLC

VARIABLES
    \* ContentProcessor instance and one process_html call
    min_text_length, max_text_length,   \* constructor arguments
    html_content,                       \* the document, as parsed
    base_url,                           \* "" models None (both are falsy)
    pc,                                 \* "ready" | "done"
    result,                             \* the record process_html returned
    caught,                             \* the except branch of process_html ran
    escaped,                            \* an exception left process_html
    raised_in,                          \* the step of process_html that raised
    readable,                           \* what extract_readable_content returned
    \* one tree under _remove_unwanted_elements
    soup, removed, passes, filter_raised, first_pass,
    \* _generate_summary calls
    content, max_length_1, max_length_2, summary_1, summary_2,
    \* OutputFormatter.format_content call
    text, metadata, now, rendered,
    entry,                              \* the function that was called
    format_type,                        \* its format argument
    render_fault,                       \* the renderer raises in this call
    render_caught,                      \* the except branch of format_content ran
    render_escaped,                     \* an exception left format_content
    \* OutputFormatter.add_metadata call
    source_url, template, extra,
    \* one _extract_text_from_elements call
    elems,                              \* the elements argument
    extracted,                          \* what the call returned
    \* a second format_content call on the same arguments, and calls in between
    rendered_2, now_2,                  \* what it returned, and when
    others,                             \* calls of other arguments made so far
    other_rendered,                     \* what the last of them returned
    \* process_html and format_content calls running side by side
    calls,                              \* per thread: arguments, locals, position
    \* one WebContentAgent.process_url call
    position,                           \* the stage to run next, or "returned"
    trace,                              \* the stages entered so far, in order
    failed,                             \* the stage that returned early or raised
    output_format,                      \* the output_format argument
    crawl_success, readable_content, ai_success, generated_content,
    posts,                              \* requests the client sent to the service
    agent_metadata,                     \* the local variable metadata
    agent_result,                       \* the dictionary process_url returns
    agent_escaped                       \* an exception left process_url

vars == << min_text_length, max_text_length, html_content, base_url, pc, result,
           caught, escaped, raised_in, readable,
           soup, removed, passes, filter_raised, first_pass,
           content, max_length_1, max_length_2, summary_1, summary_2,
           text, metadata, now, rendered,
           entry, format_type, render_fault, render_caught, render_escaped,
           source_url, template, extra,
           elems, extracted,
           rendered_2, now_2, others, other_rendered,
           calls,
           position, trace, failed, output_format, crawl_success, readable_content, ai_success, generated_content, posts, agent_metadata, agent_result, agent_escaped >>

-----------------------------------------------------------------------------
(* Characters and strings *)

U3002 == "@"
UFF01 == "$"
UFF1F == "%"
CTRL  == "^"

Ch(s, i) == SubSeq(s, i, i)

\* the least member of a non-empty set of integers
Least(S) == CHOOSE x \in S : \A y \in S : x <= y

\* the characters Python's \s and str.strip() treat as whitespace (ASCII part)
IsSpace(c) == c \in {" ", "\t", "\n", "\r", "\f"}

\* index of the first character of s at or after i that is not whitespace
RECURSIVE SkipSpace(_, _)
SkipSpace(s, i) == IF i <= Len(s) /\ IsSpace(Ch(s, i)) THEN SkipSpace(s, i + 1) ELSE i

\* index of the last character of s at or before i that is not whitespace
RECURSIVE SkipSpaceBack(_, _)
SkipSpaceBack(s, i) == IF i >= 1 /\ IsSpace(Ch(s, i)) THEN SkipSpaceBack(s, i - 1) ELSE i

\* str.strip()
Strip(s) == SubSeq(s, SkipSpace(s, 1), SkipSpaceBack(s, Len(s)))

\* str.startswith(p)
StartsWith(s, p) == Len(s) >= Len(p) /\ SubSeq(s, 1, Len(p)) = p

\* p in s
Contains(s, p) ==
    \E i \in 1..(Len(s) - Len(p) + 1) : SubSeq(s, i, i + Len(p) - 1) = p

\* s[:n] for n >= 0
Prefix(s, n) == SubSeq(s, 1, IF n < Len(s) THEN n ELSE Len(s))

UpperCase == "ABCDEFGHIJKLMNOPQRSTUVWXYZ"
LowerCase == "abcdefghijklmnopqrstuvwxyz"

LowerCh(c) ==
    IF \E k \in 1..Len(UpperCase) : Ch(UpperCase, k) = c
    THEN Ch(LowerCase, CHOOSE k \in 1..Len(UpperCase) : Ch(UpperCase, k) = c)
    ELSE c

\* the concatenation of F(s, lo), ..., F(s, hi), halving the range
RECURSIVE MapChars(_, _, _, _)
MapChars(F(_, _), s, lo, hi) ==
    IF lo > hi THEN ""
    ELSE IF lo = hi THEN F(s, lo)
    ELSE LET mid == (lo + hi) \div 2
         IN  MapChars(F, s, lo, mid) \o MapChars(F, s, mid + 1, hi)

\* str.lower()
Lower(s) == MapChars(LAMBDA t, i : LowerCh(Ch(t, i)), s, 1, Len(s))

\* sep.join(parts[lo..hi]), halving the range
RECURSIVE JoinRange(_, _, _, _)
JoinRange(parts, sep, lo, hi) ==
    IF lo > hi THEN ""
    ELSE IF lo = hi THEN parts[lo]
    ELSE LET mid == (lo + hi) \div 2
         IN  JoinRange(parts, sep, lo, mid) \o sep \o JoinRange(parts, sep, mid + 1, hi)

\* sep.join(parts)
Join(parts, sep) == JoinRange(parts, sep, 1, Len(parts))

\* the members of 1..n that satisfy Test, in increasing order
Indices(n, Test(_)) == SelectSeq([i \in 1..n |-> i], Test)

\* s.split(c) / re.split('[...]', s) for a set of one-character separators:
\* the pieces between separators, empty pieces kept
Split(s, seps) ==
    LET at  == Indices(Len(s), LAMBDA i : Ch(s, i) \in seps)
        cut == << 0 >> \o at \o << Len(s) + 1 >>
    IN  [k \in 1..(Len(at) + 1) |-> SubSeq(s, cut[k] + 1, cut[k + 1] - 1)]

\* re.sub(r'\s+', ' ', s): every maximal run of whitespace becomes one space
CollapseSpace(s) ==
    MapChars(LAMBDA t, i : IF ~IsSpace(Ch(t, i)) THEN Ch(t, i)
                           ELSE IF i > 1 /\ IsSpace(Ch(t, i - 1)) THEN "" ELSE " ",
             s, 1, Len(s))

\* re.sub(r'[\x00-\x08\x0b\x0c\x0e-\x1f\x7f-\x9f]', '', s)
DropControl(s) ==
    MapChars(LAMBDA t, i : IF Ch(t, i) \in {CTRL, "\f"} THEN "" ELSE Ch(t, i), s, 1, Len(s))

\* ContentProcessor._clean_text
clean_text(s) ==
    IF s = "" THEN "" ELSE DropControl(CollapseSpace(Strip(s)))

\* c * n
RECURSIVE Rep(_, _)
Rep(c, n) ==
    IF n <= 0 THEN "" ELSE IF n = 1 THEN c ELSE Rep(c, n \div 2) \o Rep(c, n - n \div 2)

-----------------------------------------------------------------------------
(* The parsed document *)

\* an element: tag name, parent index, class tokens (<< >> when the element has
\* no class attribute), the other attributes as <<name, value>> pairs
Elem(tag, parent, cls, attrs) ==
    [tag |-> tag, parent |-> parent, cls |-> cls, attrs |-> attrs, text |-> ""]

\* a text node (NavigableString)
Txt(parent, s) ==
    [tag |-> "#text", parent |-> parent, cls |-> << >>, attrs |-> << >>, text |-> s]

HasAttr(node, name) == \E k \in 1..Len(node.attrs) : node.attrs[k][1] = name

\* Tag.get(name, default)
Attr(node, name, default) ==
    IF HasAttr(node, name)
    THEN node.attrs[CHOOSE k \in 1..Len(node.attrs) : node.attrs[k][1] = name][2]
    ELSE default

RECURSIVE IsWithin(_, _, _)
\* node i is node a or one of its descendants (a = 0: the whole document)
IsWithin(d, a, i) ==
    \/ a = 0
    \/ i = a
    \/ d[i].parent # 0 /\ IsWithin(d, a, d[i].parent)

Subtree(d, a) == { i \in 1..Len(d) : IsWithin(d, a, i) }

\* the node indices of d that are in S, in document order
InOrder(d, S) == Indices(Len(d), LAMBDA i : i \in S)

\* the elements still attached to the tree, below node a (a itself excluded)
Below(d, gone, a) ==
    { i \in 1..Len(d) : i # a /\ i \notin gone /\ d[i].tag # "#text" /\ IsWithin(d, a, i) }

\* Tag.find_all(names): the descendants of a with one of the names, in order
find_all(d, gone, a, names) ==
    InOrder(d, { i \in Below(d, gone, a) : d[i].tag \in names })

\* Tag.get_text(strip=True): the stripped non-empty strings below a, concatenated
get_text(d, gone, a) ==
    LET strings == Indices(Len(d), LAMBDA i : /\ d[i].tag = "#text" /\ i \notin gone
                                             /\ IsWithin(d, a, i))
    IN  Join([k \in 1..Len(strings) |-> Strip(d[strings[k]].text)], "")

-----------------------------------------------------------------------------
(* Element Filter: ContentProcessor._remove_unwanted_elements *)

remove_tags ==
    << "script", "style", "nav", "header", "footer", "aside",
       "advertisement", "ads", "sidebar", "menu", "comment" >>

remove_classes ==
    << "nav", "menu", "sidebar", "footer", "header", "ad", "ads",
       "advertisement", "comment", "share", "social", "related",
       "recommend", "popup", "modal" >>

\* a test for a class name that is a keyword as a whole, lower-cased
ClassMatches_WholeName(cls) ==
    \E k \in 1..Len(remove_classes), j \in 1..Len(cls) : Lower(cls[j]) = remove_classes[k]

\* any(keyword in ' '.join(classes).lower() for keyword in self.remove_classes)
ClassMatches(cls) ==
    \E k \in 1..Len(remove_classes) : Contains(Lower(Join(cls, " ")), remove_classes[k])

\* for tag_name in self.remove_tags: for tag in soup.find_all(tag_name): tag.decompose()
\* (decompose detaches the element and destroys it and every descendant)
RECURSIVE TagLoop(_, _, _)
TagLoop(d, gone, k) ==
    IF k > Len(remove_tags) THEN gone
    ELSE TagLoop(d,
                 gone \cup UNION { Subtree(d, i) :
                                   i \in { j \in Below(d, gone, 0) : d[j].tag = remove_tags[k] } },
                 k + 1)

\* for element in soup.find_all(class_=True): the list is computed before the loop
\* runs.  An element of the list that an earlier iteration destroyed has an empty
\* __dict__; element.get('class', []) then evaluates None.get and raises
\* AttributeError, which ends the loop with the tree as it is.
RECURSIVE ClassLoop(_, _, _, _)
ClassLoop(d, gone, found, k) ==
    IF k > Len(found) THEN [gone |-> gone, raised |-> FALSE]
    ELSE IF found[k] \in gone THEN [gone |-> gone, raised |-> TRUE]
    ELSE IF ClassMatches(d[found[k]].cls)
         THEN ClassLoop(d, gone \cup Subtree(d, found[k]), found, k + 1)
         ELSE ClassLoop(d, gone, found, k + 1)

remove_unwanted_elements(d, gone) ==
    LET afterTags == TagLoop(d, gone, 1)
    IN  ClassLoop(d, afterTags,
                  InOrder(d, { i \in Below(d, afterTags, 0) : d[i].cls # << >> }), 1)

-----------------------------------------------------------------------------
(* urllib.parse.urljoin, as _extract_links and _extract_images call it *)

Letters == UpperCase \o LowerCase
SchemeChars == Letters \o "0123456789+-."

InStr(c, s) == \E k \in 1..Len(s) : Ch(s, k) = c

\* index of the first character of s that is in cs, 0 when there is none
FirstOf(s, cs) ==
    IF \E k \in 1..Len(s) : InStr(Ch(s, k), cs)
    THEN CHOOSE k \in 1..Len(s) :
            InStr(Ch(s, k), cs) /\ \A m \in 1..(k - 1) : ~InStr(Ch(s, m), cs)
    ELSE 0

From(s, i) == SubSeq(s, i, Len(s))

uses_relative == { "", "ftp", "http", "https", "file", "ws", "wss", "sftp" }
uses_netloc   == { "", "ftp", "http", "https", "file", "ws", "wss", "sftp" }

\* urlsplit, last step: the query is what follows the first "?" of what is
\* left, found at q (0: no "?")
QueryCut(scheme, netloc, rest, fragment, q) ==
    [scheme   |-> scheme,
     netloc   |-> netloc,
     path     |-> IF q = 0 THEN rest ELSE SubSeq(rest, 1, q - 1),
     query    |-> IF q = 0 THEN "" ELSE From(rest, q + 1),
     fragment |-> fragment]

\* urlsplit: the fragment is what follows the first "#", found at h
FragmentCut(scheme, netloc, rest, h) ==
    IF h = 0 THEN QueryCut(scheme, netloc, rest, "", FirstOf(rest, "?"))
    ELSE QueryCut(scheme, netloc, SubSeq(rest, 1, h - 1), From(rest, h + 1),
                  FirstOf(SubSeq(rest, 1, h - 1), "?"))

\* urlsplit: the netloc runs from behind "//" to the first of "/?#", found at j
NetlocCut(scheme, afterNet, j) ==
    IF j = 0 THEN FragmentCut(scheme, afterNet, "", 0)
    ELSE FragmentCut(scheme, SubSeq(afterNet, 1, j - 1), From(afterNet, j),
                     FirstOf(From(afterNet, j), "#"))

\* urlsplit: what follows the scheme
AfterScheme(scheme, rest) ==
    IF StartsWith(rest, "//")
    THEN NetlocCut(scheme, From(rest, 3), FirstOf(From(rest, 3), "/?#"))
    ELSE FragmentCut(scheme, "", rest, FirstOf(rest, "#"))

\* urlsplit: a scheme is a letter followed by scheme characters, up to the
\* first ":", found at i
SchemeCut(url, default, i) ==
    IF /\ i >= 2
       /\ InStr(Ch(url, 1), Letters)
       /\ \A k \in 1..(i - 1) : InStr(Ch(url, k), SchemeChars)
    THEN AfterScheme(Lower(SubSeq(url, 1, i - 1)), From(url, i + 1))
    ELSE AfterScheme(default, url)

\* urlsplit(url, scheme): scheme, netloc, path, query, fragment
UrlSplit(url, default) == SchemeCut(url, default, FirstOf(url, ":"))

\* urlunsplit
UrlUnsplit(u) ==
    LET withNet ==
            IF u.netloc # "" \/ (u.scheme # "" /\ u.scheme \in uses_netloc
                                 /\ ~StartsWith(u.path, "//"))
            THEN "//" \o u.netloc
                 \o (IF u.path # "" /\ ~StartsWith(u.path, "/") THEN "/" ELSE "")
                 \o u.path
            ELSE u.path
    IN  (IF u.scheme # "" THEN u.scheme \o ":" ELSE "")
        \o withNet
        \o (IF u.query # "" THEN "?" \o u.query ELSE "")
        \o (IF u.fragment # "" THEN "#" \o u.fragment ELSE "")

\* segments[1:-1] = filter(None, segments[1:-1])
DropEmptyInside(segs) ==
    LET n == Len(segs)
    IN  IF n <= 2 THEN segs
        ELSE << segs[1] >>
             \o SelectSeq(SubSeq(segs, 2, n - 1), LAMBDA x : x # "")
             \o << segs[n] >>

\* the loop over segments that resolves "." and ".."
RECURSIVE ResolveDots(_, _, _)
ResolveDots(segs, k, out) ==
    IF k > Len(segs) THEN out
    ELSE IF segs[k] = ".."
         THEN ResolveDots(segs, k + 1,
                          IF out = << >> THEN out ELSE SubSeq(out, 1, Len(out) - 1))
    ELSE IF segs[k] = "." THEN ResolveDots(segs, k + 1, out)
    ELSE ResolveDots(segs, k + 1, Append(out, segs[k]))

\* the path of the joined URL, from the resolved segments
JoinedPath(joined) == IF joined = "" THEN "/" ELSE joined

\* the resolved segments, with an empty one behind a final "." or ".."
ClosedSegments(segments, resolved) ==
    IF segments[Len(segments)] \in {".", ".."} THEN Append(resolved, "") ELSE resolved

\* base_parts without its last segment when that is a file name
BaseDir(bparts) ==
    IF bparts[Len(bparts)] # "" THEN SubSeq(bparts, 1, Len(bparts) - 1) ELSE bparts

\* the segments of the two paths that urljoin resolves
Segments(bpath, upath) ==
    IF StartsWith(upath, "/") THEN Split(upath, {"/"})
    ELSE DropEmptyInside(BaseDir(Split(bpath, {"/"})) \o Split(upath, {"/"}))

\* urljoin: a relative path is merged with the path of the base
MergePaths(u, netloc, segments) ==
    UrlUnsplit([scheme |-> u.scheme, netloc |-> netloc,
                path |-> JoinedPath(Join(ClosedSegments(segments,
                                                        ResolveDots(segments, 1, << >>)),
                                         "/")),
                query |-> u.query, fragment |-> u.fragment])

\* urljoin on the split base b and the split reference u
JoinSplit(b, u, url) ==
    IF u.scheme # b.scheme \/ u.scheme \notin uses_relative THEN url
    ELSE IF u.scheme \in uses_netloc /\ u.netloc # "" THEN UrlUnsplit(u)
    ELSE IF u.path = ""
         THEN UrlUnsplit([scheme |-> u.scheme,
                          netloc |-> IF u.scheme \in uses_netloc THEN b.netloc ELSE u.netloc,
                          path |-> b.path,
                          query |-> IF u.query = "" THEN b.query ELSE u.query,
                          fragment |-> u.fragment])
    ELSE MergePaths(u, IF u.scheme \in uses_netloc THEN b.netloc ELSE u.netloc,
                    Segments(b.path, u.path))

\* urljoin: the reference is split with the scheme of the base as its default
JoinBase(b, url) == JoinSplit(b, UrlSplit(url, b.scheme), url)

\* urllib.parse.urljoin(base, url)
urljoin(base, url) ==
    IF base = "" THEN url
    ELSE IF url = "" THEN base
    ELSE JoinBase(UrlSplit(base, ""), url)

\* urlsplit raises ValueError("Invalid IPv6 URL"): the netloc has one of "["
\* and "]" without the other
SplitRaises(url, default) ==
    InStr("[", UrlSplit(url, default).netloc) # InStr("]", UrlSplit(url, default).netloc)

\* urljoin(base, url) raises: it splits the base, then the url
JoinRaises(base, url) ==
    /\ base # "" /\ url # ""
    /\ SplitRaises(base, "") \/ SplitRaises(url, UrlSplit(base, "").scheme)

-----------------------------------------------------------------------------
(* Field Extractors *)

\* CSS selectors of soup.select / soup.select_one
SelTag(tag)              == [kind |-> "tag",   tag |-> tag,    name |-> "",   value |-> ""]
SelAttr(tag, name, value) == [kind |-> "attr",  tag |-> tag,    name |-> name, value |-> value]
SelClass(value)          == [kind |-> "class", tag |-> "",     name |-> "",   value |-> value]
SelId(value)             == [kind |-> "id",    tag |-> "",     name |-> "id", value |-> value]

Matches(node, sel) ==
    CASE sel.kind = "tag"   -> node.tag = sel.tag
      [] sel.kind = "attr"  -> /\ sel.tag \in {"", node.tag}
                               /\ HasAttr(node, sel.name)
                               /\ Attr(node, sel.name, "") = sel.value
      [] sel.kind = "class" -> \E k \in 1..Len(node.cls) : node.cls[k] = sel.value
      [] sel.kind = "id"    -> HasAttr(node, "id") /\ Attr(node, "id", "") = sel.value

\* soup.select(selector)
select(d, gone, sel) == InOrder(d, { i \in Below(d, gone, 0) : Matches(d[i], sel) })

MinTitleLength == 3
MinDescriptionLength == 10

title_selectors ==
    << SelTag("h1"), SelTag("title"),
       SelAttr("meta", "property", "og:title"), SelAttr("meta", "name", "title") >>

\* the text _extract_title tests: get_text(strip=True), or the stripped content
\* attribute of a meta element
TitleCandidate(d, gone, e) ==
    IF d[e].tag = "meta" THEN Strip(Attr(d[e], "content", "")) ELSE get_text(d, gone, e)

\* if title and len(title) > 3
TitleQualifies(title) == title # "" /\ Len(title) > MinTitleLength

RECURSIVE TitleLoop(_, _, _)
TitleLoop(d, gone, k) ==
    IF k > Len(title_selectors) THEN ""
    ELSE LET found == select(d, gone, title_selectors[k])
         IN  IF found # << >> /\ TitleQualifies(TitleCandidate(d, gone, found[1]))
             THEN clean_text(TitleCandidate(d, gone, found[1]))
             ELSE TitleLoop(d, gone, k + 1)

\* ContentProcessor._extract_title
extract_title(d, gone) == TitleLoop(d, gone, 1)

description_selectors ==
    << SelAttr("meta", "name", "description"),
       SelAttr("meta", "property", "og:description"),
       SelAttr("meta", "name", "summary") >>

RECURSIVE DescriptionLoop(_, _, _)
DescriptionLoop(d, gone, k) ==
    IF k > Len(description_selectors) THEN ""
    ELSE LET found == select(d, gone, description_selectors[k])
             desc  == IF found = << >> THEN ""
                      ELSE Strip(Attr(d[found[1]], "content", ""))
         IN  IF desc # "" /\ Len(desc) > MinDescriptionLength
             THEN clean_text(desc)
             ELSE DescriptionLoop(d, gone, k + 1)

\* ContentProcessor._extract_description
extract_description(d, gone) == DescriptionLoop(d, gone, 1)

ParagraphTags == { "p", "div", "h1", "h2", "h3", "h4", "h5", "h6", "li" }

\* the texts one element contributes to _extract_text_from_elements
ParagraphTexts(d, gone, ps, minlen) ==
    SelectSeq([k \in 1..Len(ps) |-> get_text(d, gone, ps[k])],
              LAMBDA t : t # "" /\ Len(t) >= minlen)

\* an element's own text is taken even when it has paragraphs below it
ElementTexts_WithOwn(d, gone, e, minlen) ==
    LET paragraphs == find_all(d, gone, e, ParagraphTags)
    IN  (IF get_text(d, gone, e) # "" THEN << get_text(d, gone, e) >> ELSE << >>)
        \o ParagraphTexts(d, gone, paragraphs, minlen)

ElementTexts(d, gone, e, minlen) ==
    LET paragraphs == find_all(d, gone, e, ParagraphTags)
    IN  IF paragraphs # << >>
        THEN ParagraphTexts(d, gone, paragraphs, minlen)
        ELSE IF get_text(d, gone, e) # "" THEN << get_text(d, gone, e) >> ELSE << >>

RECURSIVE TextsOf(_, _, _, _, _)
TextsOf(d, gone, elements, k, minlen) ==
    IF k > Len(elements) THEN << >>
    ELSE ElementTexts(d, gone, elements[k], minlen)
         \o TextsOf(d, gone, elements, k + 1, minlen)

\* ContentProcessor._extract_text_from_elements
extract_text_from_elements(d, gone, elements, minlen) ==
    Join(TextsOf(d, gone, elements, 1, minlen), "\n")

content_selectors ==
    << SelTag("main"), SelTag("article"), SelAttr("", "role", "main"),
       SelClass("content"), SelClass("main-content"), SelClass("article-content"),
       SelClass("post-content"), SelClass("entry-content"),
       SelId("content"), SelId("main-content") >>

ContentThreshold == 100
Ellipsis == "..."

\* a loop over content_selectors that never breaks: the last selector that
\* matches gives the text
RECURSIVE SelectorLoop_Last(_, _, _, _, _)
SelectorLoop_Last(d, gone, k, minlen, main) ==
    IF k > Len(content_selectors) THEN main
    ELSE LET elements == select(d, gone, content_selectors[k])
         IN  IF elements = << >> THEN SelectorLoop_Last(d, gone, k + 1, minlen, main)
             ELSE SelectorLoop_Last(d, gone, k + 1, minlen,
                                    extract_text_from_elements(d, gone, elements, minlen))

\* the loop over content_selectors: the text of each selector that matches
\* replaces the last one, and the loop breaks on a text longer than 100
RECURSIVE SelectorLoop(_, _, _, _, _)
SelectorLoop(d, gone, k, minlen, main) ==
    IF k > Len(content_selectors) THEN main
    ELSE LET elements == select(d, gone, content_selectors[k])
         IN  IF elements = << >> THEN SelectorLoop(d, gone, k + 1, minlen, main)
             ELSE LET t == extract_text_from_elements(d, gone, elements, minlen)
                  IN  IF Len(t) > ContentThreshold THEN t
                      ELSE SelectorLoop(d, gone, k + 1, minlen, t)

\* main_content after the selector loop and the body fallback, before cleaning
SelectedText(d, gone, minlen) ==
    LET main == SelectorLoop(d, gone, 1, minlen, "")
        body == find_all(d, gone, 0, {"body"})
    IN  IF Len(main) < ContentThreshold /\ body # << >>
        THEN extract_text_from_elements(d, gone, << body[1] >>, minlen)
        ELSE main

\* a limit that makes room for the marker inside the maximum
Truncate_Inside(cleaned, maxlen) ==
    IF Len(cleaned) > maxlen
    THEN Prefix(cleaned, IF maxlen > Len(Ellipsis) THEN maxlen - Len(Ellipsis) ELSE 0)
         \o Ellipsis
    ELSE cleaned

\* a limit that cuts without marking the cut
Truncate_NoMarker(cleaned, maxlen) == Prefix(cleaned, maxlen)

\* the length limit at the end of _extract_main_content
Truncate(cleaned, maxlen) ==
    IF Len(cleaned) > maxlen THEN Prefix(cleaned, maxlen) \o Ellipsis ELSE cleaned

\* ContentProcessor._extract_main_content
extract_main_content(d, gone, minlen, maxlen) ==
    Truncate(clean_text(SelectedText(d, gone, minlen)), maxlen)

keywords_selectors ==
    << SelAttr("meta", "name", "keywords"), SelAttr("meta", "property", "article:tag") >>

MaxKeywords == 10

\* [kw.strip() for kw in parts]
StripAll(parts) == [k \in 1..Len(parts) |-> Strip(parts[k])]

RECURSIVE KeywordsOf(_, _, _)
KeywordsOf(d, found, k) ==
    IF k > Len(found) THEN << >>
    ELSE LET c == Strip(Attr(d[found[k]], "content", ""))
         IN  (IF c # "" THEN StripAll(Split(c, {","})) ELSE << >>)
             \o KeywordsOf(d, found, k + 1)

\* ContentProcessor._extract_keywords
extract_keywords(d, gone) ==
    LET all == KeywordsOf(d, select(d, gone, keywords_selectors[1]), 1)
               \o KeywordsOf(d, select(d, gone, keywords_selectors[2]), 1)
    IN  Join(SubSeq(all, 1, IF Len(all) < MaxKeywords THEN Len(all) ELSE MaxKeywords), ", ")

MaxLinks == 50
MaxImages == 20
MaxLabel == 100

\* href.startswith(('http://', 'https://', '#'))
LinkKeepsHref(href) ==
    StartsWith(href, "http://") \/ StartsWith(href, "https://") \/ StartsWith(href, "#")

\* src.startswith(('http://', 'https://', 'data:'))
ImageKeepsSrc(src) ==
    StartsWith(src, "http://") \/ StartsWith(src, "https://") \/ StartsWith(src, "data:")

\* a link extractor that never resolves
LinkUrl_AsIs(base, href) == href

\* a link extractor that resolves whatever the href is
LinkUrl_Always(base, href) == IF base # "" THEN urljoin(base, href) ELSE href

\* the URL _extract_links emits for a stripped, non-empty href
LinkUrl(base, href) ==
    IF base # "" /\ ~LinkKeepsHref(href) THEN urljoin(base, href) ELSE href

\* the URL _extract_images emits for a stripped, non-empty src
ImageUrl(base, src) ==
    IF base # "" /\ ~ImageKeepsSrc(src) THEN urljoin(base, src) ELSE src

\* _extract_links raises at a stripped, non-empty href: urljoin does
LinkUrlRaises(base, href) ==
    base # "" /\ ~LinkKeepsHref(href) /\ JoinRaises(base, href)

\* _extract_images raises at a stripped, non-empty src
ImageUrlRaises(base, src) ==
    base # "" /\ ~ImageKeepsSrc(src) /\ JoinRaises(base, src)

\* the loop of _extract_links without its break
LinkLoop_NoBreak(d, gone, base, found) ==
    LET kept == SelectSeq(found, LAMBDA a : /\ Strip(Attr(d[a], "href", "")) # ""
                                            /\ get_text(d, gone, a) # "")
    IN  [k \in 1..Len(kept) |->
            [url  |-> LinkUrl(base, Strip(Attr(d[kept[k]], "href", ""))),
             text |-> Prefix(get_text(d, gone, kept[k]), MaxLabel)]]

\* the loop of _extract_links: one entry per anchor with a non-empty stripped
\* href and a non-empty text, in order; the break leaves the first 50 of them
LinkLoop(d, gone, base, found) ==
    LET kept == SelectSeq(found, LAMBDA a : /\ Strip(Attr(d[a], "href", "")) # ""
                                            /\ get_text(d, gone, a) # "")
    IN  [k \in 1..(IF Len(kept) < MaxLinks THEN Len(kept) ELSE MaxLinks) |->
            [url  |-> LinkUrl(base, Strip(Attr(d[kept[k]], "href", ""))),
             text |-> Prefix(get_text(d, gone, kept[k]), MaxLabel)]]

\* the loop of _extract_links raises: one of the anchors it reaches before the
\* break has an href urljoin raises on
LinkLoopRaises(d, gone, base, found) ==
    LET kept == SelectSeq(found, LAMBDA a : /\ Strip(Attr(d[a], "href", "")) # ""
                                            /\ get_text(d, gone, a) # "")
    IN  \E k \in 1..(IF Len(kept) < MaxLinks THEN Len(kept) ELSE MaxLinks) :
            LinkUrlRaises(base, Strip(Attr(d[kept[k]], "href", "")))

\* _extract_links raises
LinksRaise(d, gone, base) ==
    LinkLoopRaises(d, gone, base,
                   InOrder(d, { i \in Below(d, gone, 0) : d[i].tag = "a" /\ HasAttr(d[i], "href") }))

\* ContentProcessor._extract_links
extract_links(d, gone, base) ==
    LinkLoop(d, gone, base,
             InOrder(d, { i \in Below(d, gone, 0) : d[i].tag = "a" /\ HasAttr(d[i], "href") }))

\* the loop of _extract_images: one entry per image with a non-empty stripped
\* src, in order; the break leaves the first 20 of them
ImageLoop(d, base, found) ==
    LET kept == SelectSeq(found, LAMBDA a : Strip(Attr(d[a], "src", "")) # "")
    IN  [k \in 1..(IF Len(kept) < MaxImages THEN Len(kept) ELSE MaxImages) |->
            [url |-> ImageUrl(base, Strip(Attr(d[kept[k]], "src", ""))),
             alt |-> Prefix(Strip(Attr(d[kept[k]], "alt", "")), MaxLabel)]]

\* the loop of _extract_images raises
ImageLoopRaises(d, base, found) ==
    LET kept == SelectSeq(found, LAMBDA a : Strip(Attr(d[a], "src", "")) # "")
    IN  \E k \in 1..(IF Len(kept) < MaxImages THEN Len(kept) ELSE MaxImages) :
            ImageUrlRaises(base, Strip(Attr(d[kept[k]], "src", "")))

\* _extract_images raises
ImagesRaise(d, gone, base) ==
    ImageLoopRaises(d, base,
                    InOrder(d, { i \in Below(d, gone, 0) : d[i].tag = "img" /\ HasAttr(d[i], "src") }))

\* ContentProcessor._extract_images
extract_images(d, gone, base) ==
    ImageLoop(d, base,
              InOrder(d, { i \in Below(d, gone, 0) : d[i].tag = "img" /\ HasAttr(d[i], "src") }))

-----------------------------------------------------------------------------
(* Summary Generator: ContentProcessor._generate_summary *)

SummaryMinContent == 50
MinSentenceLength == 10
DefaultSummaryLength == 200

Terminators == { ".", "!", "?", U3002, UFF01, UFF1F }

\* the loop of _generate_summary with the comparison against the budget turned
\* round
RECURSIVE SummaryLoop_Inverted(_, _, _, _)
SummaryLoop_Inverted(sentences, k, max_length, summary) ==
    IF k > Len(sentences) THEN summary
    ELSE LET sentence == Strip(sentences[k])
         IN  IF sentence # "" /\ Len(sentence) > MinSentenceLength
             THEN IF Len(summary \o sentence) < max_length THEN summary
                  ELSE SummaryLoop_Inverted(sentences, k + 1, max_length,
                                            summary \o sentence \o U3002)
             ELSE SummaryLoop_Inverted(sentences, k + 1, max_length, summary)

\* the loop of _generate_summary with continue in the place of break: a
\* sentence that does not fit is passed over and later ones are still taken
RECURSIVE SummaryLoop_Skip(_, _, _, _)
SummaryLoop_Skip(sentences, k, max_length, summary) ==
    IF k > Len(sentences) THEN summary
    ELSE LET sentence == Strip(sentences[k])
         IN  IF sentence # "" /\ Len(sentence) > MinSentenceLength
                /\ Len(summary \o sentence) <= max_length
             THEN SummaryLoop_Skip(sentences, k + 1, max_length,
                                   summary \o sentence \o U3002)
             ELSE SummaryLoop_Skip(sentences, k + 1, max_length, summary)

\* the loop of _generate_summary: sentences of more than 10 characters are
\* appended, each followed by U+3002, until one would pass the budget
RECURSIVE SummaryLoop(_, _, _, _)
SummaryLoop(sentences, k, max_length, summary) ==
    IF k > Len(sentences) THEN summary
    ELSE LET sentence == Strip(sentences[k])
         IN  IF sentence # "" /\ Len(sentence) > MinSentenceLength
             THEN IF Len(summary \o sentence) > max_length THEN summary
                  ELSE SummaryLoop(sentences, k + 1, max_length,
                                   summary \o sentence \o U3002)
             ELSE SummaryLoop(sentences, k + 1, max_length, summary)

generate_summary(c, max_length) ==
    IF c = "" \/ Len(c) < SummaryMinContent THEN c
    ELSE Strip(SummaryLoop(Split(c, Terminators), 1, max_length, ""))

-----------------------------------------------------------------------------
(* Extraction Orchestrator: ContentProcessor.process_html *)

EmptyRecord ==
    [title |-> "", description |-> "", main_content |-> "", summary |-> "",
     keywords |-> "", links |-> << >>, images |-> << >>]

\* the statements of the try block, in the order they run
Steps ==
    << "parse", "filter", "title", "description", "main_content", "keywords",
       "links", "images", "summary" >>

\* an exception raised by a library call inside a step (the parser, a CSS
\* selection, a regular expression, urljoin), or none
Faults == { Steps[k] : k \in 1..Len(Steps) } \cup { "none" }

\* the record the try block builds when nothing raises
BuildRecord(d, gone, base, minlen, maxlen) ==
    LET main == extract_main_content(d, gone, minlen, maxlen)
    IN  [title        |-> extract_title(d, gone),
         description  |-> extract_description(d, gone),
         main_content |-> main,
         keywords     |-> extract_keywords(d, gone),
         links        |-> extract_links(d, gone, base),
         images       |-> extract_images(d, gone, base),
         summary      |-> generate_summary(main, DefaultSummaryLength)]

\* a handler that catches only what the extractors raise, not the AttributeError
\* of the Element Filter
ExceptHandler_Narrow(step) ==
    [record |-> EmptyRecord, caught |-> step # "filter", escaped |-> step = "filter",
     raised_in |-> step]

\* except Exception as e: ... return {all fields empty}; the handler covers every
\* statement of the try block
ExceptHandler(step) ==
    [record |-> EmptyRecord, caught |-> TRUE, escaped |-> FALSE, raised_in |-> step]

\* the try block of process_html, from the filtered tree on.  fault is the step
\* in which a library call raises, if any; filtered is what the Element Filter
\* left and whether it raised.  The link and image extractors also raise by
\* themselves, on an address urljoin raises on.  The first step that raises
\* ends the block.
try_block(d, filtered, base, minlen, maxlen, fault) ==
    IF fault = "parse" THEN ExceptHandler("parse")
    ELSE IF filtered.raised THEN ExceptHandler("filter")
    ELSE IF fault \in { "filter", "title", "description", "main_content", "keywords" }
         THEN ExceptHandler(fault)
    ELSE IF fault = "links" \/ LinksRaise(d, filtered.gone, base)
         THEN ExceptHandler("links")
    ELSE IF fault = "images" \/ ImagesRaise(d, filtered.gone, base)
         THEN ExceptHandler("images")
    ELSE IF fault = "summary" THEN ExceptHandler("summary")
    ELSE [record    |-> BuildRecord(d, filtered.gone, base, minlen, maxlen),
          caught    |-> FALSE, escaped |-> FALSE, raised_in |-> "none"]

process_html(d, base, minlen, maxlen, fault) ==
    try_block(d, remove_unwanted_elements(d, {}), base, minlen, maxlen, fault)

\* parts that are written whether or not the field is empty
ReadableParts_All(r) ==
    << "TT: " \o r.title, "DD: " \o r.description, "CCCC:\n" \o r.main_content >>

\* the three labelled parts of extract_readable_content
\* ("TT", "DD" and "CCCC" stand for the two-, two- and four-character Chinese labels)
ReadableParts(r) ==
    (IF r.title # "" THEN << "TT: " \o r.title >> ELSE << >>)
    \o (IF r.description # "" THEN << "DD: " \o r.description >> ELSE << >>)
    \o (IF r.main_content # "" THEN << "CCCC:\n" \o r.main_content >> ELSE << >>)

-----------------------------------------------------------------------------
(* JSON text, as json.dumps(data, ensure_ascii=False, indent=2) writes it and *)
(* json.loads reads it                                                        *)

\* a JSON value: a string, an integer, true/false, null, or an object whose
\* members are << key, value >> pairs in insertion order
JStr(x)  == [kind |-> "str",  s |-> x,  n |-> 0, members |-> << >>]
JInt(x)  == [kind |-> "int",  s |-> "", n |-> x, members |-> << >>]
JBool(x) == [kind |-> "bool", s |-> "", n |-> IF x THEN 1 ELSE 0, members |-> << >>]
JNull    == [kind |-> "null", s |-> "", n |-> 0, members |-> << >>]
JObj(ms) == [kind |-> "obj",  s |-> "", n |-> 0, members |-> ms]
JError   == [kind |-> "error", s |-> "", n |-> 0, members |-> << >>]

Digits == "0123456789"

\* str(n) for an integer
RECURSIVE IntToStr(_)
IntToStr(n) ==
    IF n < 0 THEN "-" \o IntToStr(0 - n)
    ELSE IF n < 10 THEN Ch(Digits, n + 1)
    ELSE IntToStr(n \div 10) \o Ch(Digits, (n % 10) + 1)

\* an encoder that leaves the backslash as it is
EscapeChar_KeepBackslash(c) ==
    CASE c = "\"" -> "\\\""
      [] c = "\n" -> "\\n"
      [] c = "\r" -> "\\r"
      [] c = "\t" -> "\\t"
      [] c = "\f" -> "\\f"
      [] c = CTRL -> "\\u0001"
      [] OTHER    -> c

\* json.encoder.ESCAPE_DCT: what one character of a string becomes when
\* ensure_ascii is false; characters outside ASCII stay as they are
EscapeChar(c) ==
    CASE c = "\"" -> "\\\""
      [] c = "\\" -> "\\\\"
      [] c = "\n" -> "\\n"
      [] c = "\r" -> "\\r"
      [] c = "\t" -> "\\t"
      [] c = "\f" -> "\\f"
      [] c = CTRL -> "\\u0001"
      [] OTHER    -> c

\* json.encoder.py_encode_basestring
EncodeString(x) ==
    "\"" \o MapChars(LAMBDA t, i : EscapeChar(Ch(t, i)), x, 1, Len(x)) \o "\""

\* the line break and indentation json.dumps writes at a nesting level
NewlineIndent(level) == "\n" \o Rep("  ", level)

\* json.dumps(value, ensure_ascii=False, indent=2) at a nesting level
RECURSIVE Dumps(_, _)
Dumps(v, level) ==
    CASE v.kind = "str"  -> EncodeString(v.s)
      [] v.kind = "int"  -> IntToStr(v.n)
      [] v.kind = "bool" -> IF v.n = 1 THEN "true" ELSE "false"
      [] v.kind = "null" -> "null"
      [] v.kind = "obj"  ->
            IF v.members = << >> THEN "{}"
            ELSE "{" \o NewlineIndent(level + 1)
                 \o Join([k \in 1..Len(v.members) |->
                             EncodeString(v.members[k][1]) \o ": "
                             \o Dumps(v.members[k][2], level + 1)],
                         "," \o NewlineIndent(level + 1))
                 \o NewlineIndent(level) \o "}"

\* s[i-1:j], whatever i and j are
Slice(s, i, j) ==
    IF i > Len(s) \/ i > j THEN "" ELSE SubSeq(s, i, IF j < Len(s) THEN j ELSE Len(s))

\* the number of consecutive backslashes of s that end at position j
RECURSIVE BackslashRun(_, _)
BackslashRun(s, j) ==
    IF j >= 1 /\ Ch(s, j) = "\\" THEN 1 + BackslashRun(s, j - 1) ELSE 0

\* position j of s holds the backslash that opens an escape
OpensEscape(s, j) == j >= 1 /\ Ch(s, j) = "\\" /\ BackslashRun(s, j) % 2 = 1

\* the character a \uXXXX escape names
CodePoint(hex) ==
    CASE hex = "0001" -> CTRL
      [] hex = "3002" -> U3002
      [] hex = "ff01" -> UFF01
      [] hex = "ff1f" -> UFF1F
      [] OTHER        -> "?"

\* json.decoder.BACKSLASH
Unescape(s, j) ==
    LET c == Ch(s, j)
    IN  CASE c = "n" -> "\n"
          [] c = "r" -> "\r"
          [] c = "t" -> "\t"
          [] c = "f" -> "\f"
          [] c = "u" -> CodePoint(Slice(s, j + 1, j + 4))
          [] OTHER   -> c

\* json.decoder.py_scanstring on the text between the quotes
DecodeString(body) ==
    MapChars(LAMBDA t, j :
                 IF OpensEscape(t, j) THEN ""
                 ELSE IF OpensEscape(t, j - 1) THEN Unescape(t, j)
                 ELSE IF \E q \in 2..(j - 1) :
                            q >= j - 4 /\ Ch(t, q) = "u" /\ OpensEscape(t, q - 1)
                      THEN ""
                 ELSE Ch(t, j),
             body, 1, Len(body))

\* the end of the run of digits of s that starts at i
RECURSIVE SkipDigits(_, _)
SkipDigits(s, i) ==
    IF i <= Len(s) /\ (\E k \in 1..10 : Ch(Digits, k) = Ch(s, i))
    THEN SkipDigits(s, i + 1) ELSE i

\* int(digits)
RECURSIVE StrToNat(_)
StrToNat(ds) ==
    IF ds = "" THEN 0
    ELSE 10 * StrToNat(SubSeq(ds, 1, Len(ds) - 1))
         + (CHOOSE k \in 0..9 : Ch(Digits, k + 1) = Ch(ds, Len(ds)))

Parsed(v, next) == [ok |-> TRUE, value |-> v, next |-> next]
NotParsed       == [ok |-> FALSE, value |-> JError, next |-> 0]

\* characters json.loads refuses inside a string literal (strict mode)
ControlChars == { "\n", "\r", "\t", "\f", CTRL }

\* the string literal of s that opens at i: closed by the first quote that no
\* escape covers
ScanString(s, i) ==
    LET closing == SelectSeq([k \in 1..(Len(s) - i) |-> i + k],
                             LAMBDA j : Ch(s, j) = "\"" /\ BackslashRun(s, j - 1) % 2 = 0)
    IN  IF closing = << >> THEN NotParsed
        ELSE IF \E j \in (i + 1)..(closing[1] - 1) : Ch(s, j) \in ControlChars
             THEN NotParsed
        ELSE Parsed(JStr(DecodeString(SubSeq(s, i + 1, closing[1] - 1))), closing[1] + 1)

\* json.scanner.py_make_scanner: the value of s that starts at i
RECURSIVE ScanOnce(_, _), ScanMembers(_, _, _)
ScanOnce(s, i) ==
    LET c == Ch(s, i)
    IN  CASE i > Len(s) -> NotParsed
          [] c = "\""   -> ScanString(s, i)
          [] c = "{"    ->
                LET j == SkipSpace(s, i + 1)
                IN  IF j <= Len(s) /\ Ch(s, j) = "}" THEN Parsed(JObj(<< >>), j + 1)
                    ELSE ScanMembers(s, j, << >>)
          [] Slice(s, i, i + 3) = "true"  -> Parsed(JBool(TRUE), i + 4)
          [] Slice(s, i, i + 4) = "false" -> Parsed(JBool(FALSE), i + 5)
          [] Slice(s, i, i + 3) = "null"  -> Parsed(JNull, i + 4)
          [] c = "-" /\ SkipDigits(s, i + 1) > i + 1 ->
                Parsed(JInt(0 - StrToNat(SubSeq(s, i + 1, SkipDigits(s, i + 1) - 1))),
                       SkipDigits(s, i + 1))
          [] SkipDigits(s, i) > i ->
                Parsed(JInt(StrToNat(SubSeq(s, i, SkipDigits(s, i) - 1))), SkipDigits(s, i))
          [] OTHER -> NotParsed

\* json.decoder.JSONObject: the members of an object, from the key at i on
ScanMembers(s, i, acc) ==
    IF i > Len(s) \/ Ch(s, i) # "\"" THEN NotParsed
    ELSE LET key == ScanString(s, i)
         IN  IF ~key.ok THEN NotParsed
             ELSE LET colon == SkipSpace(s, key.next)
                  IN  IF colon > Len(s) \/ Ch(s, colon) # ":" THEN NotParsed
                      ELSE LET v == ScanOnce(s, SkipSpace(s, colon + 1))
                           IN  IF ~v.ok THEN NotParsed
                               ELSE LET after == SkipSpace(s, v.next)
                                        all == Append(acc, << key.value.s, v.value >>)
                                    IN  IF after > Len(s) THEN NotParsed
                                        ELSE IF Ch(s, after) = "}"
                                             THEN Parsed(JObj(all), after + 1)
                                        ELSE IF Ch(s, after) = ","
                                             THEN ScanMembers(s, SkipSpace(s, after + 1), all)
                                        ELSE NotParsed

\* json.loads(s); JError stands for JSONDecodeError
Loads(s) ==
    LET v == ScanOnce(s, SkipSpace(s, 1))
    IN  IF v.ok /\ SkipSpace(s, v.next) = Len(s) + 1 THEN v.value ELSE JError

\* obj[key] of a parsed object: the last member of that name
Member(obj, key) ==
    LET at == Indices(Len(obj.members), LAMBDA k : obj.members[k][1] = key)
    IN  IF obj.kind # "obj" \/ at = << >> THEN JError
        ELSE obj.members[at[Len(at)]][2]

-----------------------------------------------------------------------------
(* Multi-format renderer: OutputFormatter *)

\* len(content.split())
WordCount(c) ==
    Cardinality({ i \in 1..Len(c) : ~IsSpace(Ch(c, i)) /\ (i = 1 \/ IsSpace(Ch(c, i - 1))) })

\* len(content.split('\n'))
LineCount(c) == Len(Split(c, { "\n" }))

\* the data of _format_as_json with a timestamp that is not read from the clock
JsonData_FixedTimestamp(c, meta, timestamp) ==
    JObj(<< << "content", JStr(c) >>,
            << "timestamp", JStr("") >>,
            << "format", JStr("json") >> >>
         \o (IF meta # << >> THEN << << "metadata", JObj(meta) >> >> ELSE << >>)
         \o << << "statistics",
                  JObj(<< << "character_count", JInt(Len(c)) >>,
                          << "word_count", JInt(WordCount(c)) >>,
                          << "line_count", JInt(LineCount(c)) >> >>) >> >>)

\* the data dictionary of _format_as_json; the metadata member is there only
\* for a non-empty metadata
JsonData(c, meta, timestamp) ==
    JObj(<< << "content", JStr(c) >>,
            << "timestamp", JStr(timestamp) >>,
            << "format", JStr("json") >> >>
         \o (IF meta # << >> THEN << << "metadata", JObj(meta) >> >> ELSE << >>)
         \o << << "statistics",
                  JObj(<< << "character_count", JInt(Len(c)) >>,
                          << "word_count", JInt(WordCount(c)) >>,
                          << "line_count", JInt(LineCount(c)) >> >>) >> >>)

\* OutputFormatter._format_as_json
format_as_json(c, meta, timestamp) == Dumps(JsonData(c, meta, timestamp), 0)

-----------------------------------------------------------------------------
(* The regular-expression substitutions of the renderers *)

\* s has the text p at position i
At(s, i, p) == i >= 1 /\ i + Len(p) - 1 <= Len(s) /\ SubSeq(s, i, i + Len(p) - 1) = p

\* the first position of s at or after i that holds c; Len(s) + 1 when none does
FirstFrom(s, i, c) == Least({ j \in i..Len(s) : Ch(s, j) = c } \cup { Len(s) + 1 })

\* mark(.*?)mark with the opening mark at p: the places where the closing mark
\* can stand; "." does not match a line break
Closings(s, p, mark) ==
    { q \in (p + Len(mark))..(FirstFrom(s, p + Len(mark), "\n") - Len(mark)) :
         At(s, q, mark) }

\* the places at or after i where mark(.*?)mark matches
Openings(s, i, mark) ==
    { p \in i..Len(s) : At(s, p, mark) /\ Closings(s, p, mark) # {} }

\* re.sub(mark(.*?)mark, open \1 close, s), from position i of s on: the
\* leftmost match, closed by the nearest mark, then the rest
RECURSIVE Rewrap(_, _, _, _, _), RewrapAt(_, _, _, _, _, _), RewrapSpan(_, _, _, _, _, _, _)
Rewrap(s, i, mark, open, close) ==
    IF Openings(s, i, mark) = {} THEN Slice(s, i, Len(s))
    ELSE RewrapAt(s, i, mark, open, close, Least(Openings(s, i, mark)))

RewrapAt(s, i, mark, open, close, p) ==
    RewrapSpan(s, i, mark, open, close, p, Least(Closings(s, p, mark)))

RewrapSpan(s, i, mark, open, close, p, q) ==
    Slice(s, i, p - 1) \o open \o Slice(s, p + Len(mark), q - 1) \o close
    \o Rewrap(s, q + Len(mark), mark, open, close)

\* position p of s is the start of a line (^ under re.MULTILINE)
LineStart(s, p) == p = 1 \/ Ch(s, p - 1) = "\n"

\* the number of "#" that s has in a row from position p on
RECURSIVE HashRun(_, _)
HashRun(s, p) == IF p <= Len(s) /\ Ch(s, p) = "#" THEN 1 + HashRun(s, p + 1) ELSE 0

\* ^#{1,6}\s+ matches at p: one to six "#" at a line start, then whitespace
HeadingMarkerAt(s, p) ==
    /\ LineStart(s, p)
    /\ HashRun(s, p) \in 1..6
    /\ p + HashRun(s, p) <= Len(s)
    /\ IsSpace(Ch(s, p + HashRun(s, p)))

\* re.sub(r'^#{1,6}\s+', '', s, flags=re.MULTILINE): the marker and all the
\* whitespace behind it go
RemoveHeadingMarkers(s) ==
    MapChars(LAMBDA t, j :
                 IF \E p \in 1..j : /\ HeadingMarkerAt(t, p)
                                    /\ j < SkipSpace(t, p + HashRun(t, p))
                 THEN "" ELSE Ch(t, j),
             s, 1, Len(s))

\* \[([^\]]+)\]\([^\)]+\) matches at p: "[", a text without "]", "](", a
\* target without ")", ")"
LinkAt(s, p) ==
    /\ At(s, p, "[")
    /\ FirstFrom(s, p + 1, "]") > p + 1
    /\ At(s, FirstFrom(s, p + 1, "]"), "](")
    /\ FirstFrom(s, FirstFrom(s, p + 1, "]") + 2, ")") > FirstFrom(s, p + 1, "]") + 2
    /\ FirstFrom(s, FirstFrom(s, p + 1, "]") + 2, ")") <= Len(s)

\* re.sub(r'\[([^\]]+)\]\([^\)]+\)', r'\1', s), from position i of s on
RECURSIVE LinksToText(_, _), LinkToTextAt(_, _, _, _)
LinksToText(s, i) ==
    IF { p \in i..Len(s) : LinkAt(s, p) } = {} THEN Slice(s, i, Len(s))
    ELSE LinkToTextAt(s, i, Least({ p \in i..Len(s) : LinkAt(s, p) }),
                      FirstFrom(s, Least({ p \in i..Len(s) : LinkAt(s, p) }) + 1, "]"))

LinkToTextAt(s, i, p, q) ==
    Slice(s, i, p - 1) \o Slice(s, p + 1, q - 1)
    \o LinksToText(s, FirstFrom(s, q + 2, ")") + 1)

\* OutputFormatter._remove_markdown_formatting
remove_markdown_formatting(c) ==
    LinksToText(Rewrap(Rewrap(RemoveHeadingMarkers(c), 1, "**", "", ""), 1, "*", "", ""), 1)

-----------------------------------------------------------------------------
(* The Markdown, HTML and plain-text renderings *)

\* a value json.dumps cannot serialise (a set, a datetime, ...); str(x) is s
JOpaque(x) == [kind |-> "opaque", s |-> x, n |-> 0, members |-> << >>]

\* key in metadata
MetaHas(meta, key) == \E k \in 1..Len(meta) : meta[k][1] = key

\* metadata.get(key): None for a key that is not there
MetaGet(meta, key) ==
    IF MetaHas(meta, key)
    THEN meta[CHOOSE k \in 1..Len(meta) : meta[k][1] = key][2]
    ELSE JNull

\* bool(v)
Truthy(v) ==
    CASE v.kind = "str"  -> v.s # ""
      [] v.kind = "int"  -> v.n # 0
      [] v.kind = "bool" -> v.n = 1
      [] v.kind = "null" -> FALSE
      [] v.kind = "obj"  -> v.members # << >>
      [] OTHER           -> TRUE

\* str(v), as an f-string formats a value
PyStr(v) ==
    CASE v.kind = "str"  -> v.s
      [] v.kind = "int"  -> IntToStr(v.n)
      [] v.kind = "bool" -> IF v.n = 1 THEN "True" ELSE "False"
      [] v.kind = "null" -> "None"
      [] OTHER           -> v.s

\* the line label \o str(metadata[key]) \o tail, there when the value is truthy
MetaLine(meta, key, label, tail) ==
    IF Truthy(MetaGet(meta, key))
    THEN << label \o PyStr(MetaGet(meta, key)) \o tail >>
    ELSE << >>

\* any(key in metadata for key in ['word_count', 'char_count'])
HasStatistics(meta) ==
    meta # << >> /\ (MetaHas(meta, "word_count") \/ MetaHas(meta, "char_count"))

\* one emoji of the class of _enhance_markdown_formatting
EMOJI == "~"

\* re.sub(r'\n{3,}', '\n\n', s): the third and later line breaks of a run go
CollapseBlankLines(s) ==
    MapChars(LAMBDA t, j :
                 IF Ch(t, j) = "\n" /\ j >= 3 /\ Ch(t, j - 1) = "\n" /\ Ch(t, j - 2) = "\n"
                 THEN "" ELSE Ch(t, j),
             s, 1, Len(s))

\* ([^\s])([emoji]) matches at p
EmojiPairAt(s, p) ==
    p + 1 <= Len(s) /\ ~IsSpace(Ch(s, p)) /\ Ch(s, p + 1) = EMOJI

\* re.sub(r'([^\s])([emoji])', r'\1 \2', s), from position i of s on: matches
\* are taken from left to right and do not overlap
RECURSIVE SpaceEmoji(_, _), SpaceEmojiAt(_, _, _)
SpaceEmoji(s, i) ==
    IF { p \in i..Len(s) : EmojiPairAt(s, p) } = {} THEN Slice(s, i, Len(s))
    ELSE SpaceEmojiAt(s, i, Least({ p \in i..Len(s) : EmojiPairAt(s, p) }))

SpaceEmojiAt(s, i, p) == Slice(s, i, p) \o " " \o EMOJI \o SpaceEmoji(s, p + 2)

\* a formatting pass that keeps the outer whitespace
enhance_markdown_formatting_NoStrip(c) == SpaceEmoji(CollapseBlankLines(c), 1)

\* OutputFormatter._enhance_markdown_formatting; its first substitution
\* replaces every match by the match itself
enhance_markdown_formatting(c) == Strip(SpaceEmoji(CollapseBlankLines(c), 1))

\* html.escape(s, quote=False): the quote characters stay as they are
HtmlEscapeChar_NoQuote(c) ==
    CASE c = "&"  -> "&amp;"
      [] c = "<"  -> "&lt;"
      [] c = ">"  -> "&gt;"
      [] OTHER    -> c

\* html.escape(s)
HtmlEscapeChar(c) ==
    CASE c = "&"  -> "&amp;"
      [] c = "<"  -> "&lt;"
      [] c = ">"  -> "&gt;"
      [] c = "\"" -> "&quot;"
      [] c = "'"  -> "&#x27;"
      [] OTHER    -> c

HtmlEscape(s) == MapChars(LAMBDA t, j : HtmlEscapeChar(Ch(t, j)), s, 1, Len(s))

\* one line under re.sub('^' marker '(.*?)$', '<tag>\1</tag>', ..., re.MULTILINE)
HeadingLine(line, marker, tag) ==
    IF StartsWith(line, marker)
    THEN "<" \o tag \o ">" \o From(line, Len(marker) + 1) \o "</" \o tag \o ">"
    ELSE line

\* the substitution on every line of s
HeadingLines(lines, marker, tag) ==
    Join([k \in 1..Len(lines) |-> HeadingLine(lines[k], marker, tag)], "\n")

ConvertHeadings(s, marker, tag) == HeadingLines(Split(s, { "\n" }), marker, tag)

\* s.split(sep) for a separator of several characters, from position i on
RECURSIVE SplitOn(_, _, _)
SplitOn(s, sep, i) ==
    IF { p \in i..Len(s) : At(s, p, sep) } = {} THEN << Slice(s, i, Len(s)) >>
    ELSE << Slice(s, i, Least({ p \in i..Len(s) : At(s, p, sep) }) - 1) >>
         \o SplitOn(s, sep, Least({ p \in i..Len(s) : At(s, p, sep) }) + Len(sep))

\* re.match(r'^<[hH][1-6]>', para)
IsHeadingBlock(para) ==
    /\ Len(para) >= 4
    /\ Ch(para, 1) = "<" /\ Ch(para, 2) \in { "h", "H" }
    /\ Ch(para, 3) \in { "1", "2", "3", "4", "5", "6" } /\ Ch(para, 4) = ">"

\* para.replace(chr(10), "<br>")
LineBreaks(para) ==
    MapChars(LAMBDA t, j : IF Ch(t, j) = "\n" THEN "<br>" ELSE Ch(t, j), para, 1, Len(para))

\* one trimmed, non-empty paragraph of _convert_markdown_to_html
HtmlParagraph(para) ==
    IF IsHeadingBlock(para) THEN para ELSE "<p>" \o LineBreaks(para) \o "</p>"

\* the paragraph loop of _convert_markdown_to_html
HtmlParagraphs(paragraphs) ==
    Join([k \in 1..Len(paragraphs) |-> HtmlParagraph(paragraphs[k])], "\n")

NonEmpty(parts) == SelectSeq(parts, LAMBDA x : x # "")

\* OutputFormatter._convert_markdown_to_html
convert_markdown_to_html(c) ==
    HtmlParagraphs(NonEmpty(StripAll(SplitOn(
        Rewrap(Rewrap(ConvertHeadings(ConvertHeadings(ConvertHeadings(
                   HtmlEscape(c), "# ", "h1"), "## ", "h2"), "### ", "h3"),
               1, "**", "<strong>", "</strong>"),
               1, "*", "<em>", "</em>"),
        "\n\n", 1))))

\* OutputFormatter._format_as_markdown
format_as_markdown(c, meta) ==
    Join((IF meta # << >>
          THEN << "---" >>
               \o MetaLine(meta, "source_url", "**SS**: ", "")
               \o MetaLine(meta, "timestamp", "**TTTT**: ", "")
               \o MetaLine(meta, "template", "**MMMM**: ", "")
               \o << "---\n" >>
          ELSE << >>)
         \o << enhance_markdown_formatting(c) >>
         \o (IF HasStatistics(meta)
             THEN << "\n---", "**STAT**" >>
                  \o MetaLine(meta, "word_count", "- WW: ", "")
                  \o MetaLine(meta, "char_count", "- CCC: ", "")
             ELSE << >>),
         "\n")

\* OutputFormatter._get_html_styles: a fixed style sheet
HtmlStyles == "\n        body { }\n        "

\* the source line of the metadata panel: the address is written twice
SourceLink(meta) ==
    IF Truthy(MetaGet(meta, "source_url"))
    THEN << "        <p><strong>SS:</strong> <a href=\""
            \o PyStr(MetaGet(meta, "source_url")) \o "\" target=\"_blank\">"
            \o PyStr(MetaGet(meta, "source_url")) \o "</a></p>" >>
    ELSE << >>

\* OutputFormatter._format_as_html
format_as_html(c, meta) ==
    Join(<< "<!DOCTYPE html>",
            "<html lang=\"zh-CN\">",
            "<head>",
            "    <meta charset=\"UTF-8\">",
            "    <meta name=\"viewport\" content=\"width=device-width, initial-scale=1.0\">",
            "    <title>WWWWWWWW</title>",
            "    <style>",
            HtmlStyles,
            "    </style>",
            "</head>",
            "<body>" >>
         \o (IF meta # << >>
             THEN << "    <div class=\"metadata\">", "        <h3>I IIII</h3>" >>
                  \o SourceLink(meta)
                  \o MetaLine(meta, "timestamp", "        <p><strong>TTTT:</strong> ", "</p>")
                  \o MetaLine(meta, "template", "        <p><strong>MMMM:</strong> ", "</p>")
                  \o << "    </div>" >>
             ELSE << >>)
         \o << "    <div class=\"content\">",
               "        " \o convert_markdown_to_html(c),
               "    </div>" >>
         \o (IF HasStatistics(meta)
             THEN << "    <div class=\"stats\">", "        <h3>S SSSS</h3>" >>
                  \o MetaLine(meta, "word_count",
                              "        <span class=\"stat-item\">WW: ", "</span>")
                  \o MetaLine(meta, "char_count",
                              "        <span class=\"stat-item\">CCC: ", "</span>")
                  \o << "    </div>" >>
             ELSE << >>)
         \o << "</body>", "</html>" >>,
         "\n")

RuleWidth == 80     \* "=" * 80
DashWidth == 50     \* "-" * 50

\* what _format_as_text writes before the content
TextHead(meta) ==
    << Rep("=", RuleWidth), "WWWWWWWW", Rep("=", RuleWidth) >>
    \o (IF meta # << >>
        THEN << "", "[IIII]" >>
             \o MetaLine(meta, "source_url", "SS: ", "")
             \o MetaLine(meta, "timestamp", "TTTT: ", "")
             \o MetaLine(meta, "template", "MMMM: ", "")
        ELSE << >>)
    \o << "", "[CCCC]", Rep("-", DashWidth) >>

\* what _format_as_text writes after the content
TextTail(meta) ==
    (IF HasStatistics(meta)
     THEN << "", Rep("-", DashWidth), "[SSSS]" >>
          \o MetaLine(meta, "word_count", "WW: ", "")
          \o MetaLine(meta, "char_count", "CCC: ", "")
     ELSE << >>)
    \o << Rep("=", RuleWidth) >>

\* OutputFormatter._format_as_text
format_as_text(c, meta) ==
    Join(TextHead(meta) \o << remove_markdown_formatting(c) >> \o TextTail(meta), "\n")

-----------------------------------------------------------------------------
(* OutputFormatter.format_content and format_content_output *)

\* the members of OutputFormat, and None
MARKDOWN == "OutputFormat.MARKDOWN"
HTML     == "OutputFormat.HTML"
TEXT     == "OutputFormat.TEXT"
JSON     == "OutputFormat.JSON"
None     == "None"

\* OutputFormatter() is always constructed with the default default_format
default_format == MARKDOWN

\* json.dumps can serialise v
RECURSIVE Serializable(_)
Serializable(v) ==
    /\ v.kind # "opaque"
    /\ \A k \in 1..Len(v.members) : Serializable(v.members[k][2])

\* the renderer chosen for format_type raises: json.dumps raises TypeError on
\* a value it cannot serialise; any renderer raises under a fault
RendererRaises(format_type_, meta, fault_) ==
    \/ fault_
    \/ format_type_ = JSON /\ ~Serializable(JObj(meta))

\* a dispatch that hands the text back for a format that is no member
Dispatch_UnknownAsIs(c, format_type_, meta, timestamp) ==
    CASE format_type_ = MARKDOWN -> format_as_markdown(c, meta)
      [] format_type_ = HTML     -> format_as_html(c, meta)
      [] format_type_ = TEXT     -> format_as_text(c, meta)
      [] format_type_ = JSON     -> format_as_json(c, meta, timestamp)
      [] OTHER                   -> c

\* the if/elif chain of format_content: the else branch renders Markdown
Dispatch(c, format_type_, meta, timestamp) ==
    CASE format_type_ = MARKDOWN -> format_as_markdown(c, meta)
      [] format_type_ = HTML     -> format_as_html(c, meta)
      [] format_type_ = TEXT     -> format_as_text(c, meta)
      [] format_type_ = JSON     -> format_as_json(c, meta, timestamp)
      [] OTHER                   -> format_as_markdown(c, meta)

\* a handler that lets the exception go
RenderExcept_Reraise(c) == [returned |-> "", caught |-> TRUE, escaped |-> TRUE]

\* except Exception: return content
RenderExcept(c) == [returned |-> c, caught |-> TRUE, escaped |-> FALSE]

\* format_type after "if format_type is None: format_type = self.default_format"
Effective(format_type_) == IF format_type_ = None THEN default_format ELSE format_type_

\* OutputFormatter.format_content
format_content(c, format_type_, meta, timestamp, fault_) ==
    IF RendererRaises(Effective(format_type_), meta, fault_)
    THEN RenderExcept(c)
    ELSE [returned |-> Dispatch(c, Effective(format_type_), meta, timestamp),
          caught |-> FALSE, escaped |-> FALSE]

\* the format_type string of format_content_output, as a member of OutputFormat
FormatEnum(name) ==
    CASE Lower(name) = "html" -> HTML
      [] Lower(name) = "text" -> TEXT
      [] Lower(name) = "json" -> JSON
      [] OTHER                -> MARKDOWN

\* format_content_output
format_content_output(c, name, meta, timestamp, fault_) ==
    format_content(c, FormatEnum(name), meta, timestamp, fault_)

-----------------------------------------------------------------------------
(* OutputFormatter.add_metadata *)

\* n in decimal, at least w digits wide (%Y is four wide, %m %d %H %M %S two)
RECURSIVE Pad(_, _)
Pad(n, w) == IF Len(IntToStr(n)) >= w THEN IntToStr(n) ELSE "0" \o Pad(n, w - 1) 

\* the readings of datetime.now()
Clocks ==
    { [year |-> 2026, month |-> 1, day |-> 1, hour |-> 0, minute |-> 0,
       second |-> 0, microsecond |-> 0],
      [year |-> 2026, month |-> 11, day |-> 3, hour |-> 12, minute |-> 30,
       second |-> 45, microsecond |-> 123456] }

\* datetime.strftime('%Y-%m-%d %H:%M:%S')
strftime(t) ==
    IntToStr(t.year) \o "-" \o Pad(t.month, 2) \o "-" \o Pad(t.day, 2) \o " "
    \o Pad(t.hour, 2) \o ":" \o Pad(t.minute, 2) \o ":" \o Pad(t.second, 2)

\* datetime.isoformat(): the microseconds are written when they are not zero
isoformat(t) ==
    IntToStr(t.year) \o "-" \o Pad(t.month, 2) \o "-" \o Pad(t.day, 2) \o "T"
    \o Pad(t.hour, 2) \o ":" \o Pad(t.minute, 2) \o ":" \o Pad(t.second, 2)
    \o (IF t.microsecond # 0 THEN "." \o Pad(t.microsecond, 6) ELSE "")

\* d[key] = v: a key that is there keeps its place, a new one goes last
DictSet(d, key, v) ==
    IF MetaHas(d, key)
    THEN [k \in 1..Len(d) |-> IF d[k][1] = key THEN << key, v >> ELSE d[k]]
    ELSE Append(d, << key, v >>)

\* an update that leaves the keys that are there as they are
RECURSIVE DictUpdate_KeepPresent(_, _, _)
DictUpdate_KeepPresent(d, other, k) ==
    IF k > Len(other) THEN d
    ELSE DictUpdate_KeepPresent(IF MetaHas(d, other[k][1]) THEN d
                                ELSE Append(d, other[k]), other, k + 1)

\* d.update(other), from the k-th item of other on
RECURSIVE DictUpdate(_, _, _)
DictUpdate(d, other, k) ==
    IF k > Len(other) THEN d
    ELSE DictUpdate(DictSet(d, other[k][1], other[k][2]), other, k + 1)

\* the dictionary add_metadata starts with
ComputedMetadata(c, t) ==
    << << "timestamp", JStr(strftime(t)) >>,
       << "char_count", JInt(Len(c)) >>,
       << "word_count", JInt(WordCount(c)) >>,
       << "line_count", JInt(LineCount(c)) >> >>

\* if value: metadata[key] = value
SetIfGiven(d, key, value) == IF value # "" THEN DictSet(d, key, JStr(value)) ELSE d

\* OutputFormatter.add_metadata(content, source_url, template, **kwargs) at
\* clock reading t; "" stands for an argument that is None or empty
add_metadata(c, url, tpl, kwargs, t) ==
    DictUpdate(SetIfGiven(SetIfGiven(ComputedMetadata(c, t), "source_url", url),
                          "template", tpl),
               kwargs, 1)

-----------------------------------------------------------------------------
(* Values of the variables a specification does not use *)

ExtractIdle ==
    /\ min_text_length = 0 /\ max_text_length = 0
    /\ html_content = << >> /\ base_url = ""
    /\ result = EmptyRecord
    /\ caught = FALSE /\ escaped = FALSE /\ raised_in = "none" /\ readable = ""

FilterIdle ==
    /\ soup = << >> /\ removed = {} /\ passes = 0
    /\ filter_raised = FALSE /\ first_pass = {}

SummaryIdle ==
    /\ content = "" /\ max_length_1 = 0 /\ max_length_2 = 0
    /\ summary_1 = "" /\ summary_2 = ""

RenderIdle ==
    /\ text = "" /\ metadata = << >> /\ now = "" /\ rendered = ""
    /\ entry = "" /\ format_type = "" /\ render_fault = FALSE
    /\ render_caught = FALSE /\ render_escaped = FALSE
    /\ source_url = "" /\ template = "" /\ extra = << >>

extractVars == << min_text_length, max_text_length, html_content, base_url, pc,
                  result, caught, escaped, raised_in, readable >>
filterVars  == << soup, removed, passes, filter_raised, first_pass >>
summaryVars == << content, max_length_1, max_length_2, summary_1, summary_2 >>
renderVars  == << text, metadata, now, rendered,
                 entry, format_type, render_fault, render_caught, render_escaped,
                 source_url, template, extra >>

TextsIdle ==
    /\ elems = << >> /\ extracted = ""

textsVars == << elems, extracted >>

RepeatIdle ==
    /\ rendered_2 = "" /\ now_2 = "" /\ others = 0 /\ other_rendered = ""

repeatVars == << rendered_2, now_2, others, other_rendered >>

ThreadIdle ==
    /\ calls = << >>

threadVars == << calls >>

AgentIdle ==
    /\ position = "" /\ trace = << >> /\ failed = "" /\ output_format = ""
    /\ crawl_success = FALSE /\ readable_content = "" /\ ai_success = FALSE
    /\ generated_content = "" /\ posts = 0 /\ agent_metadata = << >>
    /\ agent_result = << >> /\ agent_escaped = FALSE

agentVars == << position, trace, failed, output_format, crawl_success, readable_content,
               ai_success, generated_content, posts, agent_metadata, agent_result,
               agent_escaped >>

-----------------------------------------------------------------------------
(* Documents handed to process_html *)

Absent == "<absent>"

NoCls == << >>
NoAttrs == << >>

\* d with one more element and, when s is not empty, its text node
WithText(d, elem, s) ==
    IF s = "" THEN Append(d, elem) ELSE d \o << elem, Txt(Len(d) + 1, s) >>

Meta(key, name, value) ==
    Elem("meta", 2, NoCls, << << key, name >>, << "content", value >> >>)

\* <html><head>[title][metas]</head> ; the body is added by the callers
PageHead(ti, og, mt, desc, kw) ==
    LET d0 == << Elem("html", 0, NoCls, NoAttrs), Elem("head", 1, NoCls, NoAttrs) >>
        d1 == IF ti = Absent THEN d0 ELSE WithText(d0, Elem("title", 2, NoCls, NoAttrs), ti)
        d2 == IF og = Absent THEN d1 ELSE Append(d1, Meta("property", "og:title", og))
        d3 == IF mt = Absent THEN d2 ELSE Append(d2, Meta("name", "title", mt))
        d4 == IF desc = Absent THEN d3 ELSE Append(d3, Meta("name", "description", desc))
    IN  IF kw = Absent THEN d4 ELSE Append(d4, Meta("name", "keywords", kw))

Body(d) == Append(d, Elem("body", 1, NoCls, NoAttrs))

\* pages that differ in their title candidates
TitleDoc(h1, ti, og, mt) ==
    LET d == Body(PageHead(ti, og, mt, Absent, Absent))
        b == Len(d)
        e == IF h1 = Absent THEN d ELSE WithText(d, Elem("h1", b, NoCls, NoAttrs), h1)
    IN  WithText(e, Elem("p", b, NoCls, NoAttrs), "no title elements")

H1Texts    == { Absent, "", "abc", "Visible", "a  b", " Hi \n", "Top " \o CTRL \o " story" }
TitleTexts == { Absent, "Hidden", "ab" }
OgTexts    == { Absent, "Open Graph", "x^^^" }
MetaTexts  == { Absent, "Meta" }

TitleDocs ==
    { TitleDoc(h1, ti, og, mt) :
      h1 \in H1Texts, ti \in TitleTexts, og \in OgTexts, mt \in MetaTexts }

\* pages that differ in where the body text is and how long it is
Sentence1 == "The first sentence is long"
Sentence2 == "Second one here"
LongText  == Sentence1 \o ". " \o Sentence2 \o "! " \o Rep("x", ContentThreshold) \o "?"

ParagraphTexts1 == { "tiny", "Hello   world,\n again", "0123456789", LongText }
ParagraphTexts2 == { "", "second paragraph", Rep("y", ContentThreshold + 1) }
Containers == { "body", "main", "content", "nav" }

ContentDoc(box, t1, t2) ==
    LET d  == Body(PageHead("A page", Absent, Absent, "A description of the page", "k1, k2 ,k3"))
        b  == Len(d)
        d1 == CASE box = "body"    -> d
                [] box = "main"    -> Append(d, Elem("main", b, NoCls, NoAttrs))
                [] box = "content" -> Append(d, Elem("div", b, << "content", "wide" >>, NoAttrs))
                [] box = "nav"     -> Append(d, Elem("div", b, << "Navbar" >>, NoAttrs))
        c  == Len(d1)
        d2 == WithText(d1, Elem("p", c, NoCls, NoAttrs), t1)
        d3 == WithText(d2, Elem("p", c, NoCls, NoAttrs), t2)
    IN  WithText(d3, Elem("span", b, NoCls, NoAttrs), "outside")

ContentDocs ==
    { ContentDoc(box, t1, t2) :
      box \in Containers, t1 \in ParagraphTexts1, t2 \in ParagraphTexts2 }

\* pages with up to three content containers, main, article and div.content,
\* each with one paragraph of its own letter; 0 leaves the container out
BoxSizes == { 0, 15, ContentThreshold, ContentThreshold + 1 }

Box(d, elem, letter, n) ==
    IF n = 0 THEN d
    ELSE WithText(Append(d, elem), Elem("p", Len(d) + 1, NoCls, NoAttrs), Rep(letter, n))

SelectorDoc(b, nm, na, nc) ==
    WithText(Box(Box(Box(Body(PageHead("A page", Absent, Absent, Absent, Absent)),
                         Elem("main", b, NoCls, NoAttrs), "m", nm),
                     Elem("article", b, NoCls, NoAttrs), "a", na),
                 Elem("div", b, << "content" >>, NoAttrs), "c", nc),
             Elem("p", b, NoCls, NoAttrs), "text outside the containers")

SelectorDocs ==
    { SelectorDoc(Len(Body(PageHead("A page", Absent, Absent, Absent, Absent))), nm, na, nc) :
      nm \in BoxSizes, na \in BoxSizes, nc \in BoxSizes }

\* pages that differ in their anchors and images
OneAttr(name, value) == IF value = Absent THEN NoAttrs ELSE << << name, value >> >>

Anchor(d, parent, href, label) ==
    WithText(d, Elem("a", parent, NoCls, OneAttr("href", href)), label)

Image(d, parent, src, alt) ==
    Append(d, Elem("img", parent, NoCls, OneAttr("src", src) \o OneAttr("alt", alt)))

\* d with n more anchors below parent, their hrefs alternating between h1 and
\* h2, each with the text "link"
Anchors(d, parent, n, h1, h2) ==
    d \o [k \in 1..(2 * n) |->
            IF k % 2 = 1
            THEN Elem("a", parent, NoCls, OneAttr("href", IF k % 4 = 1 THEN h1 ELSE h2))
            ELSE Txt(Len(d) + k - 1, "link")]

\* d with m more images below parent, each with src s
Images(d, parent, m, s) ==
    d \o [k \in 1..m |->
            Elem("img", parent, NoCls, OneAttr("src", s) \o OneAttr("alt", " a picture "))]

LinkDoc(n, h1, h2, m, s) ==
    LET d == Body(PageHead(Absent, Absent, Absent, Absent, Absent))
    IN  Images(Anchors(d, Len(d), n, h1, h2), Len(d), m, s)

Hrefs ==
    { "b.html", " b.html ", "/x", "../c", "?q=1", "#top", "//cdn.com/i.png",
      "https://other.com/x", "http://other.com/", " https://other.com/x? ",
      "data:abc,d", "mailto:a@b", "HTTPS://Other.com/x", "//[x", "", Absent }

RefDocs ==
    { LinkDoc(2, h1, h2, 1, h1) : h1 \in Hrefs, h2 \in { "b.html", "#top", "" } }
    \cup { LinkDoc(2, "//[x", "b.html", 1, "i.png"), LinkDoc(2, "b.html", "#top", 1, "//[x") }

ExtraRefs == 2      \* anchors and images beyond the limits 50 and 20

BulkDocs ==
    { LinkDoc(n, h1, "#top", m, "i.png") :
      n \in (MaxLinks - 1)..(MaxLinks + ExtraRefs),
      m \in (MaxImages - 1)..(MaxImages + ExtraRefs),
      h1 \in { "b.html", "" } }

\* pages with elements the Element Filter removes
FilterDoc(tag, outer, inner) ==
    LET d  == Body(PageHead("Filter page", Absent, Absent, Absent, Absent))
        b  == Len(d)
        d1 == Append(d, Elem(tag, b, outer, NoAttrs))
        c  == Len(d1)
        d2 == WithText(d1, Elem("p", c, inner, NoAttrs), "text inside the box")
        d3 == Anchor(d2, c, "in.html", "inside")
        d4 == Image(d3, c, "in.png", Absent)
        d5 == WithText(d4, Elem("h1", c, NoCls, NoAttrs), "Boxed heading")
        d6 == WithText(d5, Elem("p", b, << "intro" >>, NoAttrs), "text outside the box")
    IN  Anchor(d6, b, "out.html", "outside")

PageDocs ==
    { FilterDoc(tag, outer, inner) :
      tag \in { "div", "footer" },
      outer \in { NoCls, << "sidebar" >>, << "Shadow" >>, << "box" >> },
      inner \in { NoCls, << "note" >>, << "social" >> } }

BaseUrls == { "", "https://example.com/a/", "http://example.com/d/page.html?x=1#f" }

TextLimits == { 0, 18, 50000 }

-----------------------------------------------------------------------------
(* One call of process_html or extract_readable_content *)

Init ==
    /\ \/ html_content \in TitleDocs /\ base_url = ""
          /\ min_text_length = 10 /\ max_text_length = 50000
       \/ html_content \in ContentDocs /\ base_url = ""
          /\ min_text_length \in { 1, 10 } /\ max_text_length \in TextLimits
       \/ html_content \in RefDocs /\ base_url \in BaseUrls
          /\ min_text_length = 10 /\ max_text_length = 50000
       \/ html_content \in BulkDocs /\ base_url = "https://example.com/a/"
          /\ min_text_length = 10 /\ max_text_length = 50000
       \/ html_content \in PageDocs /\ base_url \in { "", "https://example.com/a/" }
          /\ min_text_length = 10 /\ max_text_length = 50000
       \/ html_content \in SelectorDocs /\ base_url = ""
          /\ min_text_length = 10 /\ max_text_length = 50000
    /\ pc = "ready" /\ result = EmptyRecord
    /\ caught = FALSE /\ escaped = FALSE /\ raised_in = "none" /\ readable = ""
    /\ FilterIdle /\ SummaryIdle /\ RenderIdle /\ TextsIdle /\ RepeatIdle /\ ThreadIdle /\ AgentIdle

Returned(out) ==
    /\ result' = out.record
    /\ caught' = out.caught
    /\ escaped' = out.escaped
    /\ raised_in' = out.raised_in

\* processor.process_html(html_content, base_url)
ProcessHtml ==
    /\ pc = "ready"
    /\ LET filtered == remove_unwanted_elements(html_content, {})
       IN  \E fault \in Faults :
              Returned(try_block(html_content, filtered, base_url,
                                 min_text_length, max_text_length, fault))
    /\ pc' = "done"
    /\ UNCHANGED << min_text_length, max_text_length, html_content, base_url, readable,
                    filterVars, summaryVars, renderVars, textsVars, repeatVars, threadVars, agentVars >>

\* processor.extract_readable_content(html_content, base_url)
ExtractReadableContent ==
    /\ pc = "ready"
    /\ LET filtered == remove_unwanted_elements(html_content, {})
       IN  \E fault \in Faults :
              LET out == try_block(html_content, filtered, base_url,
                                   min_text_length, max_text_length, fault)
              IN  /\ Returned(out)
                  /\ readable' = Join(ReadableParts(out.record), "\n\n")
    /\ pc' = "read"
    /\ UNCHANGED << min_text_length, max_text_length, html_content, base_url,
                    filterVars, summaryVars, renderVars, textsVars, repeatVars, threadVars, agentVars >>

Next == ProcessHtml \/ ExtractReadableContent

Spec == Init /\ [][Next]_vars

-----------------------------------------------------------------------------
(* Properties of process_html *)

Called == pc # "ready"

\* what the Element Filter leaves of the document of this call
Gone == remove_unwanted_elements(html_content, {}).gone

\* the cleaned selected text of this call, before the length limit
Cleaned == clean_text(SelectedText(html_content, Gone, min_text_length))

\* the anchors and images of the filtered document that yield an entry, in order
EmittingAnchors ==
    LET gone == Gone
    IN  Indices(Len(html_content),
                LAMBDA i : /\ i \notin gone
                           /\ html_content[i].tag = "a" /\ HasAttr(html_content[i], "href")
                           /\ Strip(Attr(html_content[i], "href", "")) # ""
                           /\ get_text(html_content, gone, i) # "")

EmittingImages ==
    LET gone == Gone
    IN  Indices(Len(html_content),
                LAMBDA i : /\ i \notin gone
                           /\ html_content[i].tag = "img" /\ HasAttr(html_content[i], "src")
                           /\ Strip(Attr(html_content[i], "src", "")) # "")

\* the reference of an anchor or image as it appears in the markup, trimmed
Href(i) == Strip(Attr(html_content[i], "href", ""))
Src(i)  == Strip(Attr(html_content[i], "src", ""))

IsAbsolute(ref) == StartsWith(ref, "http://") \/ StartsWith(ref, "https://")
IsFragment(ref) == StartsWith(ref, "#")
IsData(ref)     == StartsWith(ref, "data:")

\* C1: process_html returns a record and never raises; whenever a step raises
\* internally, the record returned has every text field empty and no links and
\* no images.
C1_NeverRaises ==
    Called =>
        /\ ~escaped
        /\ DOMAIN result = DOMAIN EmptyRecord
        /\ (raised_in # "none" => result = EmptyRecord)

\* a call in which the Element Filter raised on a page that has a title, links
\* and images, and the record returned is the empty one
C1_Witness ==
    /\ pc = "done" /\ raised_in = "filter" /\ result = EmptyRecord
    /\ html_content \in PageDocs

\* C2: main_content is the cleaned selected text when that has at most
\* max_text_length characters, and otherwise its first max_text_length
\* characters followed by "..."; so it has at most max_text_length + 3 characters.
C2_MainContentTruncation ==
    (Called /\ ~caught) =>
        /\ Len(Cleaned) <= max_text_length => result.main_content = Cleaned
        /\ Len(Cleaned) > max_text_length =>
              result.main_content = SubSeq(Cleaned, 1, max_text_length) \o "..."
        /\ Len(result.main_content) <= max_text_length + 3

\* a call that truncated a text longer than a positive maximum
C2_Witness ==
    /\ pc = "done" /\ ~caught
    /\ max_text_length > 0 /\ Len(Cleaned) > max_text_length

\* C3 as stated: main_content as returned, marker included, is never longer than
\* max_text_length.
C3_WithinMaximum == Called => Len(result.main_content) <= max_text_length

\* C3 amended: main_content as returned is longer than max_text_length only when
\* it was truncated, and then by exactly the three characters of the marker.
C3_WithinMaximumPlusMarker ==
    (Called /\ ~caught) =>
        \/ Len(result.main_content) <= max_text_length /\ result.main_content = Cleaned
        \/ /\ Len(result.main_content) = max_text_length + Len(Ellipsis)
           /\ Len(Cleaned) > max_text_length
           /\ From(result.main_content, max_text_length + 1) = Ellipsis

C3_Witness ==
    /\ pc = "done" /\ ~caught
    /\ Len(Cleaned) > max_text_length
    /\ Len(result.main_content) > max_text_length

\* C4: whatever the number of anchors and images, links has at most 50 entries
\* and images at most 20.
C4_LinkAndImageLimits ==
    Len(result.links) <= 50 /\ Len(result.images) <= 20

\* a page with more than 50 anchors and more than 20 images that yield an entry
C4_Witness ==
    /\ pc = "done" /\ ~caught
    /\ Len(EmittingAnchors) > 50 /\ Len(result.links) = 50
    /\ Len(EmittingImages) > 20 /\ Len(result.images) = 20

\* the title as "the cleaned text of the first candidate whose cleaned text
\* exceeds 3 characters" reads: the length is measured after cleaning
RECURSIVE FirstCleanedCandidate(_)
FirstCleanedCandidate(k) ==
    IF k > Len(title_selectors) THEN ""
    ELSE LET found == select(html_content, Gone, title_selectors[k])
             cleaned == IF found = << >> THEN ""
                        ELSE clean_text(TitleCandidate(html_content, Gone, found[1]))
         IN  IF Len(cleaned) > 3 THEN cleaned ELSE FirstCleanedCandidate(k + 1)

\* C8: the title is the cleaned text of the first candidate, in the order h1,
\* title, og:title meta, title meta, whose cleaned text exceeds 3 characters;
\* absent or shorter candidates are skipped, and with no qualifying candidate
\* the title is empty.
C8_TitleIsFirstQualifying ==
    (Called /\ ~caught) => result.title = FirstCleanedCandidate(1)

\* a relative reference: neither absolute nor fragment-only
IsRelative(ref) == ~IsAbsolute(ref) /\ ~IsFragment(ref)

\* C9: with a base location, an anchor with a relative href is emitted with the
\* href resolved against the base (https://example.com/a/ and b.html give
\* https://example.com/a/b.html) and an anchor whose href starts with http://
\* or https:// is emitted unchanged; without a base location every href is
\* emitted unchanged.
C9_LinkResolution ==
    (Called /\ ~caught) =>
      LET anchors == EmittingAnchors
      IN  \A k \in 1..Len(result.links) :
            LET href == Href(anchors[k])
                url  == result.links[k].url
            IN  /\ base_url = "" => url = href
                /\ (base_url # "" /\ IsAbsolute(href)) => url = href
                /\ (base_url # "" /\ IsRelative(href)) => url = urljoin(base_url, href)
                /\ (base_url = "https://example.com/a/" /\ href = "b.html")
                       => url = "https://example.com/a/b.html"
                /\ (base_url = "https://example.com/a/" /\ href = "/x")
                       => url = "https://example.com/x"
                /\ (base_url = "https://example.com/a/" /\ href = "../c")
                       => url = "https://example.com/c"

\* a call with the base https://example.com/a/ whose record has the resolved
\* b.html and, after it, an absolute href left as it was
C9_Witness ==
    /\ pc = "done" /\ ~caught /\ base_url = "https://example.com/a/"
    /\ LET anchors == EmittingAnchors
       IN  \E k, j \in 1..Len(result.links) :
              /\ Href(anchors[k]) = "b.html"
              /\ result.links[k].url = "https://example.com/a/b.html"
              /\ Href(anchors[j]) = "https://other.com/x"
              /\ result.links[j].url = "https://other.com/x"

\* C10: with a base location, every link and every image whose reference is
\* absolute (http:// or https://), fragment-only (#...) or embedded data
\* (data:...) is emitted exactly as it appears in the markup, trimmed.
C10_ReferencesUntouched ==
    (Called /\ ~caught /\ base_url # "") =>
      LET anchors == EmittingAnchors
          images  == EmittingImages
      IN
        /\ \A k \in 1..Len(result.links) :
              LET href == Href(anchors[k])
              IN  (IsAbsolute(href) \/ IsFragment(href) \/ IsData(href))
                      => result.links[k].url = href
        /\ \A k \in 1..Len(result.images) :
              LET src == Src(images[k])
              IN  (IsAbsolute(src) \/ IsFragment(src) \/ IsData(src))
                      => result.images[k].url = src

\* C10 as the code has it: links keep absolute, fragment-only and data
\* references; images keep absolute and data references, and a fragment-only
\* image source is resolved against the base location.
C10_ReferencesKept ==
    (Called /\ ~caught /\ base_url # "") =>
      LET anchors == EmittingAnchors
          images  == EmittingImages
      IN
        /\ \A k \in 1..Len(result.links) :
              LET href == Href(anchors[k])
              IN  (IsAbsolute(href) \/ IsFragment(href) \/ IsData(href))
                      => result.links[k].url = href
        /\ \A k \in 1..Len(result.images) :
              LET src == Src(images[k])
              IN  /\ (IsAbsolute(src) \/ IsData(src)) => result.images[k].url = src
                  /\ IsFragment(src) => /\ result.images[k].url = urljoin(base_url, src)
                                        /\ result.images[k].url # src

\* a call with a base location whose record has a fragment-only link left as
\* it was and a fragment-only image source resolved against the base
C10_Witness ==
    /\ pc = "done" /\ ~caught /\ base_url = "https://example.com/a/"
    /\ LET anchors == EmittingAnchors
       IN  \E k \in 1..Len(result.links) :
              Href(anchors[k]) = "#top" /\ result.links[k].url = "#top"
    /\ LET images == EmittingImages
       IN  \E k \in 1..Len(result.images) :
              /\ Src(images[k]) = "#top"
              /\ result.images[k].url = "https://example.com/a/#top"

-----------------------------------------------------------------------------
(* The Element Filter applied, and applied again, to one tree *)

MaxNodes  == 3      \* elements of a generated tree
MaxPasses == 2      \* times the filter is run on it

FilterTags    == { "div", "nav" }
FilterClasses == { << >>, << "ad" >>, << "x" >> }

\* where the next element of a document in document order can hang: below the
\* soup object or below the last element or one of its ancestors
OpenNodes(t) ==
    {0} \cup (IF t = << >> THEN {} ELSE { a \in 1..Len(t) : IsWithin(t, a, Len(t)) })

RECURSIVE TreesOf(_)
TreesOf(n) ==
    IF n = 0 THEN { << >> }
    ELSE UNION { { Append(t, Elem(g, p, c, << >>)) :
                   g \in FilterTags, p \in OpenNodes(t), c \in FilterClasses } :
                 t \in TreesOf(n - 1) }

FilterTrees == UNION { TreesOf(n) : n \in 1..MaxNodes }

InitFilter ==
    /\ soup \in FilterTrees
    /\ removed = {} /\ passes = 0 /\ filter_raised = FALSE /\ first_pass = {}
    /\ pc = "ready"
    /\ ExtractIdle /\ SummaryIdle /\ RenderIdle /\ TextsIdle /\ RepeatIdle /\ ThreadIdle /\ AgentIdle

\* self._remove_unwanted_elements(soup): mutates the tree in place
RemoveUnwantedElements ==
    /\ passes < MaxPasses
    /\ LET r == remove_unwanted_elements(soup, removed)
       IN  /\ removed' = r.gone
           /\ filter_raised' = r.raised
           /\ first_pass' = IF passes = 0 THEN r.gone ELSE first_pass
    /\ passes' = passes + 1
    /\ UNCHANGED << soup, extractVars, summaryVars, renderVars, textsVars, repeatVars, threadVars, agentVars >>

NextFilter == RemoveUnwantedElements

SpecFilter == InitFilter /\ [][NextFilter]_vars

\* C5: the Element Filter is idempotent: a second application to an already
\* filtered tree removes nothing, so filtering twice yields the tree that
\* filtering once yields.
C5_FilterIdempotent == passes >= 2 => removed = first_pass

-----------------------------------------------------------------------------
(* _generate_summary called on one body text with two budgets *)

MaxSentences == 3      \* sentences of a generated body text

SentencePieces == { "", "tiny text", "eleven char", " a sentence of some length " }

Separators == { ".", "!  ", U3002 }

Budgets == { -1, 0, 11, 25, 26, 38, DefaultSummaryLength }

\* body texts of n sentences, each closed by the separator
RECURSIVE TextsOfSentences(_, _)
TextsOfSentences(n, sep) ==
    IF n = 0 THEN { "" }
    ELSE { t \o p \o sep : t \in TextsOfSentences(n - 1, sep), p \in SentencePieces }

\* the texts of this many sentences also come with a last sentence that no
\* terminator closes
OpenEnded == 2

BodyTexts ==
    UNION { TextsOfSentences(n, sep) : n \in 1..MaxSentences, sep \in Separators }
    \cup { t \o "the tail of the text" : t \in TextsOfSentences(OpenEnded, ".") }

InitSummary ==
    /\ content \in BodyTexts
    /\ max_length_1 \in Budgets /\ max_length_2 \in Budgets
    /\ max_length_1 <= max_length_2
    /\ summary_1 = "" /\ summary_2 = ""
    /\ pc = "ready"
    /\ ExtractIdle /\ FilterIdle /\ RenderIdle /\ TextsIdle /\ RepeatIdle /\ ThreadIdle /\ AgentIdle

\* self._generate_summary(content, max_length), first with the smaller budget
\* and then with the larger one
GenerateSummary ==
    /\ \/ /\ pc = "ready"
          /\ summary_1' = generate_summary(content, max_length_1)
          /\ pc' = "first"
          /\ UNCHANGED summary_2
       \/ /\ pc = "first"
          /\ summary_2' = generate_summary(content, max_length_2)
          /\ pc' = "done"
          /\ UNCHANGED summary_1
    /\ UNCHANGED << content, max_length_1, max_length_2, min_text_length, max_text_length,
                    html_content, base_url, result, caught, escaped, raised_in,
                    readable, filterVars, renderVars, textsVars, repeatVars, threadVars, agentVars >>

NextSummary == GenerateSummary

SpecSummary == InitSummary /\ [][NextSummary]_vars

\* C7: for a fixed body text and budgets m1 <= m2, the summary generated with
\* max_length = m2 is at least as long as the one generated with max_length = m1.
C7_SummaryMonotonic ==
    (pc = "done" /\ max_length_1 <= max_length_2) => Len(summary_2) >= Len(summary_1)

\* a body text of at least 50 characters on which the smaller budget stops the
\* loop after a sentence and the larger budget lets it go further
C7_Witness ==
    /\ pc = "done" /\ Len(content) >= SummaryMinContent
    /\ max_length_1 < max_length_2
    /\ summary_1 # "" /\ Len(summary_1) < Len(summary_2)

-----------------------------------------------------------------------------
(* OutputFormatter.format_content and format_content_output, one call *)

MaxChars == 3      \* characters of a generated text

TextAlphabet == { "a", " ", "\"", "\\", "\n", CTRL }

RECURSIVE TextsOfLength(_)
TextsOfLength(n) ==
    IF n = 0 THEN { "" }
    ELSE { t \o c : t \in TextsOfLength(n - 1), c \in TextAlphabet }

Texts ==
    UNION { TextsOfLength(n) : n \in 0..MaxChars }
    \cup { "# Title\n\nTwo words\tand a \"quote\", a \\ and " \o U3002,
           "{\"content\": \"x\", \"format\": \"text\"}" }

Metadatas ==
    { << >>,
      << << "title", JStr("A \"B\" \\ C") >> >>,
      << << "count", JInt(3) >>, << "offset", JInt(-12) >>,
         << "ok", JBool(TRUE) >>, << "none", JNull >> >>,
      << << "content", JStr("other") >>, << "format", JStr("xml") >>,
         << "statistics", JInt(0) >> >> }

\* values of datetime.now().isoformat()
Timestamps == { isoformat(t) : t \in Clocks }

\* pieces of Markdown: as written (src), and as the text a reader is to see
\* (plain); a heading is one only at the start of a line
Pieces ==
    { [src |-> "x y",                       plain |-> "x y",    heading |-> FALSE],
      [src |-> "**bold**",                  plain |-> "bold",   heading |-> FALSE],
      [src |-> "*italic*",                  plain |-> "italic", heading |-> FALSE],
      [src |-> "[a link](http://x)",        plain |-> "a link", heading |-> FALSE],
      [src |-> "[Foo](http://x/Foo_(bar))", plain |-> "Foo",    heading |-> FALSE],
      [src |-> "## Head",                   plain |-> "Head",   heading |-> TRUE] }

PieceSeparators == { " and ", "\n" }

MaxPieces == 2     \* pieces of a Markdown text

\* the texts of n pieces: each piece with the separator written before it
RECURSIVE Plans(_)
Plans(n) ==
    IF n = 1 THEN { << [sep |-> "", piece |-> p] >> : p \in Pieces }
    ELSE { Append(plan, [sep |-> sp, piece |-> p]) :
              plan \in Plans(n - 1), sp \in PieceSeparators, p \in Pieces }

AllPlans == UNION { Plans(n) : n \in 1..MaxPieces }

\* the Markdown text of a plan
SourceOf(plan) == Join([k \in 1..Len(plan) |-> plan[k].sep \o plan[k].piece.src], "")

\* the text of a plan without its markers
PlainOf(plan) ==
    Join([k \in 1..Len(plan) |->
             plan[k].sep \o (IF plan[k].piece.heading /\ plan[k].sep \notin { "", "\n" }
                             THEN plan[k].piece.src
                             ELSE plan[k].piece.plain)], "")

Example == "**bold** and *italic* and [a link](http://x)"

MarkdownTexts == { SourceOf(plan) : plan \in AllPlans } \cup { Example }

\* texts with what the Markdown and HTML renderings change: outer whitespace,
\* runs of blank lines, emoji, markup characters
RenderTexts ==
    { "", "plain", " padded \n",
      "# Title\n\n\n\nBody" \o EMOJI \o " text " \o EMOJI \o EMOJI,
      "**b** <i> & *e*", Example, "Done" \o EMOJI \o EMOJI }

\* the metadata add_metadata builds, any mapping, and one with a value that
\* json.dumps cannot serialise
RenderMetadatas ==
    { << >>,
      << << "timestamp", JStr("2026-11-03 12:30:45") >>, << "char_count", JInt(5) >>,
         << "word_count", JInt(1) >>, << "line_count", JInt(1) >>,
         << "source_url", JStr("http://x/") >>, << "template", JStr("news") >> >>,
      << << "title", JStr("x") >>, << "char_count", JInt(0) >> >>,
      << << "tags", JOpaque("{'a'}") >> >> }

\* format arguments of format_content: None, the members, and other values
FormatArguments == { None, MARKDOWN, HTML, TEXT, JSON, "html", "pdf" }

\* format_type strings of format_content_output
FormatNames == { "markdown", "HTML", "Text", "json", "pdf", "" }

MaxMarkup == 2     \* pieces of a text with markup characters

MarkupPieces ==
    { "<b>", "<h1>", "&", "&lt;", "\"q\"", "'", "# ", "**", "*", "\n", "\n\n", "x" }

RECURSIVE MarkupTextsOf(_)
MarkupTextsOf(n) ==
    IF n = 0 THEN { "" }
    ELSE { t \o p : t \in MarkupTextsOf(n - 1), p \in MarkupPieces }

MarkupTexts == UNION { MarkupTextsOf(n) : n \in 0..MaxMarkup }

InitRender ==
    /\ \/ /\ text \in Texts /\ metadata \in Metadatas
          /\ entry = "format_content" /\ format_type = JSON
          /\ render_fault = FALSE
       \/ /\ text \in MarkdownTexts
          /\ metadata \in { m \in RenderMetadatas : Serializable(JObj(m)) }
          /\ entry = "format_content" /\ format_type = TEXT
          /\ render_fault = FALSE
       \/ /\ text \in MarkupTexts
          /\ metadata \in { m \in RenderMetadatas : m = << >> \/ MetaHas(m, "timestamp") }
          /\ entry = "format_content" /\ format_type = HTML
          /\ render_fault = FALSE
       \/ /\ text \in RenderTexts /\ metadata \in RenderMetadatas
          /\ \/ entry = "format_content" /\ format_type \in FormatArguments
             \/ entry = "format_content_output" /\ format_type \in FormatNames
          /\ render_fault \in BOOLEAN
    /\ now = "" /\ rendered = ""
    /\ render_caught = FALSE /\ render_escaped = FALSE
    /\ source_url = "" /\ template = "" /\ extra = << >>
    /\ pc = "ready"
    /\ ExtractIdle /\ FilterIdle /\ SummaryIdle /\ TextsIdle /\ RepeatIdle /\ ThreadIdle /\ AgentIdle

\* what a call leaves in the state
Rendered(out, t) ==
    /\ now' = t
    /\ rendered' = out.returned
    /\ render_caught' = out.caught
    /\ render_escaped' = out.escaped
    /\ pc' = "done"
    /\ UNCHANGED << text, metadata, entry, format_type, render_fault,
                    source_url, template, extra,
                    min_text_length, max_text_length, html_content,
                    base_url, result, caught, escaped, raised_in, readable,
                    filterVars, summaryVars, textsVars, repeatVars, threadVars, agentVars >>

\* formatter.format_content(text, format_type, metadata), called at time t
FormatContent ==
    /\ pc = "ready" /\ entry = "format_content"
    /\ \E t \in Timestamps :
          Rendered(format_content(text, format_type, metadata, t, render_fault), t)

\* format_content_output(text, format_type, metadata), called at time t
FormatContentOutput ==
    /\ pc = "ready" /\ entry = "format_content_output"
    /\ \E t \in Timestamps :
          Rendered(format_content_output(text, format_type, metadata, t, render_fault), t)

NextRender == FormatContent \/ FormatContentOutput

SpecRender == InitRender /\ [][NextRender]_vars

\* the member of OutputFormat the call dispatched on
Dispatched ==
    IF entry = "format_content" THEN Effective(format_type) ELSE FormatEnum(format_type)

\* the call returned what a renderer returned
RenderedBy(member) == pc = "done" /\ ~render_caught /\ Dispatched = member

\* C6: parsing the JSON rendering of a text gives an object whose content is
\* the text exactly, whose format is "json" and whose
\* statistics.character_count is the length of the text, with metadata absent
\* or made of scalars.
C6_JsonRoundTrip ==
    RenderedBy(JSON) =>
        LET obj == Loads(rendered)
        IN  /\ obj.kind = "obj"
            /\ Member(obj, "content") = JStr(text)
            /\ Member(obj, "format") = JStr("json")
            /\ Member(Member(obj, "statistics"), "character_count") = JInt(Len(text))

\* a rendering of a text with a quote, a backslash and a line break in it, with
\* metadata, that parses back to the text
C6_Witness ==
    /\ RenderedBy(JSON) /\ metadata # << >>
    /\ Contains(text, "\"") /\ Contains(text, "\\") /\ Contains(text, "\n")
    /\ Member(Loads(rendered), "content") = JStr(text)

\* the content section of a plain-text rendering: what stands between the
\* head and the tail
ContentSection ==
    Slice(rendered, Len(Join(TextHead(metadata), "\n")) + 2,
          Len(rendered) - Len(Join(TextTail(metadata), "\n")) - 1)

\* C11: the content section of the plain-text rendering is the text without
\* its heading markers at line start, bold and italic markers, with every link
\* [text](url) reduced to text and every other character kept in order; for
\* the example it is "bold and italic and a link".
C11_PlainTextStripping ==
    RenderedBy(TEXT) =>
        /\ \A plan \in AllPlans : text = SourceOf(plan) => ContentSection = PlainOf(plan)
        /\ text = Example => ContentSection = "bold and italic and a link"

\* the format argument names none of the four formats
UnknownFormat ==
    \/ entry = "format_content"
       /\ format_type \notin { None, MARKDOWN, HTML, TEXT, JSON }
    \/ entry = "format_content_output"
       /\ Lower(format_type) \notin { "markdown", "html", "text", "json" }

\* C12: a call with a format that is none of Markdown, HTML, plain text and
\* JSON does not fail and returns exactly what the Markdown rendering of the
\* same text and metadata returns.
C12_UnknownFormatIsMarkdown ==
    pc = "done" /\ UnknownFormat =>
        /\ ~render_escaped
        /\ rendered = format_content(text, MARKDOWN, metadata, now, render_fault).returned

\* an unknown format given to format_content itself, rendered as Markdown
\* with a metadata header
C12_Witness ==
    /\ pc = "done" /\ UnknownFormat /\ entry = "format_content"
    /\ ~render_caught /\ metadata # << >>
    /\ StartsWith(rendered, "---\n") /\ rendered # text

\* C13: whatever the format, when the renderer raises, format_content returns
\* the input text unchanged and no exception leaves it; no call raises.
C13_FailOpen ==
    pc = "done" =>
        /\ ~render_escaped
        /\ RendererRaises(Dispatched, metadata, render_fault) =>
              render_caught /\ rendered = text

\* json.dumps raised on a metadata value it cannot serialise, and the text
\* came back
C13_Witness ==
    /\ pc = "done" /\ ~render_fault /\ Dispatched = JSON
    /\ ~Serializable(JObj(metadata))
    /\ render_caught /\ text # "" /\ rendered = text

\* C14 as stated: with an unknown format the returned string is the
\* unmodified input text.
C14_UnknownFormatReturnsInput ==
    pc = "done" /\ UnknownFormat => rendered = text

\* the Markdown formatting pass leaves s as it is: no outer whitespace, no run
\* of three line breaks, no emoji right behind a character that is not
\* whitespace
Unchanged(s) ==
    /\ s = "" \/ (~IsSpace(Ch(s, 1)) /\ ~IsSpace(Ch(s, Len(s))))
    /\ ~Contains(s, "\n\n\n")
    /\ \A p \in 2..Len(s) : Ch(s, p) = EMOJI => IsSpace(Ch(s, p - 1))

\* C14, amended: with an unknown format the returned string is the Markdown
\* rendering; it is the unmodified input text only when the renderer raised,
\* or when there is no metadata and the formatting pass has nothing to change.
C14_UnknownFormatKeepsInputOnlyIf ==
    pc = "done" /\ UnknownFormat =>
        (rendered = text <=> (render_caught \/ (metadata = << >> /\ Unchanged(text))))

\* an unknown format, no metadata, no fault, and the text came back changed
C14_Witness ==
    /\ pc = "done" /\ UnknownFormat /\ ~render_caught
    /\ metadata = << >> /\ rendered # text /\ rendered = Strip(text)

-----------------------------------------------------------------------------
(* OutputFormatter.add_metadata, one call *)

\* texts of words, spaces and line breaks
CountedTexts ==
    { t \in Texts : ~Contains(t, "\"") /\ ~Contains(t, "\\") /\ ~Contains(t, CTRL) }
    \cup { " two  words\n\nand a line \n" }

\* the keyword arguments: none, fields of other names, and fields that carry
\* the names of the computed ones
Extras ==
    { << >>,
      << << "author", JStr("x") >> >>,
      << << "word_count", JInt(99) >> >>,
      << << "timestamp", JStr("never") >>, << "author", JStr("x") >> >>,
      << << "line_count", JInt(0) >>, << "char_count", JNull >>,
         << "word_count", JStr("many") >>, << "timestamp", JBool(FALSE) >> >> }

InitMetadata ==
    /\ text \in CountedTexts
    /\ source_url \in { "", "http://x/" }
    /\ template \in { "", "news" }
    /\ extra \in Extras
    /\ metadata = << >> /\ now = "" /\ rendered = ""
    /\ entry = "add_metadata" /\ format_type = "" /\ render_fault = FALSE
    /\ render_caught = FALSE /\ render_escaped = FALSE
    /\ pc = "ready"
    /\ ExtractIdle /\ FilterIdle /\ SummaryIdle /\ TextsIdle /\ RepeatIdle /\ ThreadIdle /\ AgentIdle

\* formatter.add_metadata(text, source_url, template, **extra)
AddMetadata ==
    /\ pc = "ready" /\ entry = "add_metadata"
    /\ \E t \in Clocks :
          /\ now' = strftime(t)
          /\ metadata' = add_metadata(text, source_url, template, extra, t)
    /\ pc' = "done"
    /\ UNCHANGED << text, rendered, entry, format_type, render_fault,
                    render_caught, render_escaped, source_url, template, extra,
                    min_text_length, max_text_length, html_content,
                    base_url, result, caught, escaped, raised_in, readable,
                    filterVars, summaryVars, textsVars, repeatVars, threadVars, agentVars >>

NextMetadata == AddMetadata

SpecMetadata == InitMetadata /\ [][NextMetadata]_vars

\* the value add_metadata computes for a key: the length, the number of
\* pieces between whitespace that are not empty, the line breaks plus one,
\* the clock reading
Computed(key) ==
    CASE key = "char_count" -> JInt(Len(text))
      [] key = "word_count" ->
            JInt(Len(NonEmpty(Split(text, { " ", "\t", "\n", "\r", "\f" }))))
      [] key = "line_count" ->
            JInt(Cardinality({ i \in 1..Len(text) : Ch(text, i) = "\n" }) + 1)
      [] key = "timestamp"  -> JStr(now)

\* "YYYY-MM-DD HH:MM:SS"
IsTimestamp(s) ==
    /\ Len(s) = Len("YYYY-MM-DD HH:MM:SS")
    /\ \A i \in 1..Len(s) :
          IF i \in { 5, 8 } THEN Ch(s, i) = "-"
          ELSE IF i = 11 THEN Ch(s, i) = " "
          ELSE IF i \in { 14, 17 } THEN Ch(s, i) = ":"
          ELSE Contains(Digits, Ch(s, i))

\* C15: the mapping add_metadata returns always has the keys timestamp,
\* char_count, word_count and line_count; each holds the extra field of that
\* name when one is passed and the computed value otherwise; source_url and
\* template are there only when given non-empty.
C15_MetadataFields ==
    pc = "done" =>
        /\ \A key \in { "timestamp", "char_count", "word_count", "line_count" } :
              /\ MetaHas(metadata, key)
              /\ MetaGet(metadata, key) =
                    IF MetaHas(extra, key) THEN MetaGet(extra, key) ELSE Computed(key)
        /\ IsTimestamp(now)
        /\ MetaHas(metadata, "source_url") <=> source_url # ""
        /\ MetaHas(metadata, "template") <=> template # ""
        /\ source_url # "" => MetaGet(metadata, "source_url") = JStr(source_url)
        /\ template # "" => MetaGet(metadata, "template") = JStr(template)

\* a call with a word_count of its own, a template and no source address, on
\* a text of several words and lines
C15_Witness ==
    /\ pc = "done" /\ entry = "add_metadata"
    /\ MetaHas(extra, "word_count") /\ ~MetaHas(extra, "char_count")
    /\ MetaGet(metadata, "word_count") = JInt(99)
    /\ MetaGet(metadata, "char_count") = JInt(Len(text))
    /\ Computed("word_count") = JInt(5) /\ Computed("line_count") = JInt(4)
    /\ source_url = "" /\ template # ""
    /\ ~MetaHas(metadata, "source_url") /\ MetaHas(metadata, "template")

-----------------------------------------------------------------------------
(* Properties of process_html and extract_readable_content, continued *)

FieldSteps == { "title", "description", "main_content", "keywords", "links", "images" }

\* the extractors that raise by themselves on the document of this call
RaisingAlone ==
    (IF LinksRaise(html_content, Gone, base_url) THEN { "links" } ELSE {})
    \cup (IF ImagesRaise(html_content, Gone, base_url) THEN { "images" } ELSE {})

\* the record in which one field is empty and every other field is what its
\* extractor produces; the summary is made of the main content
Isolated(step) ==
    LET main == IF step = "main_content" THEN ""
                ELSE extract_main_content(html_content, Gone, min_text_length, max_text_length)
    IN  [title        |-> IF step = "title" THEN "" ELSE extract_title(html_content, Gone),
         description  |-> IF step = "description" THEN ""
                          ELSE extract_description(html_content, Gone),
         main_content |-> main,
         keywords     |-> IF step = "keywords" THEN ""
                          ELSE extract_keywords(html_content, Gone),
         links        |-> IF step = "links" THEN << >>
                          ELSE extract_links(html_content, Gone, base_url),
         images       |-> IF step = "images" THEN << >>
                          ELSE extract_images(html_content, Gone, base_url),
         summary      |-> generate_summary(main, DefaultSummaryLength)]

\* C16: when exactly one field extractor raises during a call, the record has
\* that field empty and every other field as its own extractor produces it.
C16_FailureIsolation ==
    Called /\ raised_in \in FieldSteps /\ RaisingAlone \subseteq { raised_in }
        => result = Isolated(raised_in)

\* whitespace is single spaces between other characters, and there is no
\* control character
Normalised(s) ==
    /\ s = "" \/ (~IsSpace(Ch(s, 1)) /\ ~IsSpace(Ch(s, Len(s))))
    /\ \A i \in 1..Len(s) :
          /\ IsSpace(Ch(s, i)) => Ch(s, i) = " "
          /\ i > 1 /\ IsSpace(Ch(s, i)) => ~IsSpace(Ch(s, i - 1))
          /\ Ch(s, i) # CTRL

\* C17: in every record, title, description and main_content have no outer
\* whitespace, no two whitespace characters in a row, no whitespace other than
\* the space, and no control character.
C17_TextFieldsNormalised ==
    Called =>
        /\ Normalised(result.title)
        /\ Normalised(result.description)
        /\ Normalised(result.main_content)

\* "\n\n" between two parts that are both there
Blank(a, b) == IF a # "" /\ b # "" THEN "\n\n" ELSE ""

Labelled(label, field) == IF field # "" THEN label \o field ELSE ""

\* C18: the readable text is made of the labelled title, the labelled
\* description and the labelled main content of the record of the same call,
\* the non-empty ones, in this order, with one blank line between them; it is
\* empty exactly when the three fields are, and nothing else is in it.
C18_ReadableText ==
    pc = "read" =>
        /\ readable =
              Labelled("TT: ", result.title)
              \o Blank(result.title, result.description \o result.main_content)
              \o Labelled("DD: ", result.description)
              \o Blank(result.description, result.main_content)
              \o Labelled("CCCC:\n", result.main_content)
        /\ readable = "" <=>
              (result.title = "" /\ result.description = "" /\ result.main_content = "")

\* a page with a title and a body text but no description, and keywords that
\* are not in the readable text
C18_Witness ==
    /\ pc = "read" /\ ~caught
    /\ result.title # "" /\ result.description = "" /\ result.main_content # ""
    /\ readable = "TT: " \o result.title \o "\n\nCCCC:\n" \o result.main_content

\* the text _extract_text_from_elements gives for the k-th selector
SelectorText(k) ==
    extract_text_from_elements(html_content, Gone,
                               select(html_content, Gone, content_selectors[k]),
                               min_text_length)

\* the selectors that match and give more than n characters
SelectorsAbove(n) ==
    { k \in 1..Len(content_selectors) :
         /\ select(html_content, Gone, content_selectors[k]) # << >>
         /\ Len(SelectorText(k)) > n }

\* the text extracted from the body as a whole
BodyText ==
    extract_text_from_elements(html_content, Gone,
                               << find_all(html_content, Gone, 0, { "body" })[1] >>,
                               min_text_length)

\* main_content is derived from s: cleaned and cut to the maximum
DerivedFrom(s) == result.main_content = Truncate(clean_text(s), max_text_length)

\* C19: when some selector of the list matches elements whose extracted text
\* is longer than 100 characters, main_content is derived from the first such
\* selector, not from a later one and not from the body.
C19_SelectorPrecedence ==
    Called /\ ~caught =>
        LET above == SelectorsAbove(ContentThreshold)
        IN  above # {} => DerivedFrom(SelectorText(Least(above)))

\* main is short, article and div.content are both long: article gives the text
C19_Witness ==
    /\ Called /\ ~caught
    /\ result.main_content = Rep("a", ContentThreshold + 1)
    /\ SelectorsAbove(0) = { 1, 2, 4 } /\ SelectorsAbove(ContentThreshold) = { 2, 4 }

\* C20: main_content comes from the whole body if and only if no selector
\* yields at least 100 characters; when some selector does, the body is not
\* used and the text of such a selector is.
C20_BodyFallback ==
    Called /\ ~caught /\ find_all(html_content, Gone, 0, { "body" }) # << >> =>
        LET yielding == SelectorsAbove(ContentThreshold - 1)
        IN  IF yielding = {} THEN DerivedFrom(BodyText)
            ELSE \E k \in yielding : DerivedFrom(SelectorText(k))

-----------------------------------------------------------------------------
(* _extract_text_from_elements on its own: a list of elements of one tree *)

InnerTags == { "p", "span", "div" }
NestedTags == { Absent, "li", "b" }

\* <section>own <ta>sa <tb>sb</tb></ta></section><article>other</article>
TextTree(own, ta, sa, tb, sb, other) ==
    LET d1 == WithText(<< >>, Elem("section", 0, NoCls, NoAttrs), own)
        d2 == WithText(d1, Elem(ta, 1, NoCls, NoAttrs), sa)
        d3 == IF tb = Absent THEN d2
              ELSE WithText(d2, Elem(tb, Len(d1) + 1, NoCls, NoAttrs), sb)
    IN  WithText(d3, Elem("article", 0, NoCls, NoAttrs), other)

TextTrees ==
    { TextTree(own, ta, sa, tb, sb, other) :
      own \in { "", " own text of it " }, ta \in InnerTags,
      sa \in { "", "short", " a long paragraph \n" },
      tb \in NestedTags, sb \in { "", "nested item text" },
      other \in { "", "article text" } }

TheSection(d) == find_all(d, {}, 0, { "section" })[1]
TheInner(d) == find_all(d, {}, TheSection(d), InnerTags)[1]
TheArticle(d) == find_all(d, {}, 0, { "article" })[1]

\* the lists of elements a selector can hand over: one element, two in either
\* order, an element and one of its descendants, none
ElementLists(d) ==
    { << >>, << TheSection(d) >>, << TheInner(d) >>,
      << TheSection(d), TheArticle(d) >>, << TheArticle(d), TheSection(d) >>,
      << TheSection(d), TheInner(d) >> }

MinLengths == { 1, 6, 10 }

InitTexts ==
    /\ html_content \in TextTrees
    /\ elems \in ElementLists(html_content)
    /\ min_text_length \in MinLengths
    /\ extracted = ""
    /\ pc = "ready"
    /\ max_text_length = 0 /\ base_url = "" /\ result = EmptyRecord
    /\ caught = FALSE /\ escaped = FALSE /\ raised_in = "none" /\ readable = ""
    /\ FilterIdle /\ SummaryIdle /\ RenderIdle /\ RepeatIdle /\ ThreadIdle /\ AgentIdle

\* processor._extract_text_from_elements(elements)
ExtractTextFromElements ==
    /\ pc = "ready"
    /\ extracted' = extract_text_from_elements(html_content, {}, elems, min_text_length)
    /\ pc' = "done"
    /\ UNCHANGED << elems, min_text_length, max_text_length, html_content, base_url,
                    result, caught, escaped, raised_in, readable,
                    filterVars, summaryVars, renderVars, repeatVars, threadVars, agentVars >>

NextTexts == ExtractTextFromElements

SpecTexts == InitTexts /\ [][NextTexts]_vars

\* the trimmed text of node i
TrimmedText(i) == get_text(html_content, {}, i)

\* node e has a p, div, h1..h6 or li somewhere below it
HasParagraphs(e) ==
    \E i \in 1..Len(html_content) :
        i # e /\ html_content[i].tag \in ParagraphTags /\ IsWithin(html_content, e, i)

\* node i gives a piece of the result on behalf of the k-th element
Kept(k, i) ==
    IF HasParagraphs(elems[k])
    THEN /\ i # elems[k]
         /\ html_content[i].tag \in ParagraphTags
         /\ IsWithin(html_content, elems[k], i)
         /\ Len(TrimmedText(i)) >= min_text_length
    ELSE i = elems[k] /\ TrimmedText(i) # ""

-----------------------------------------------------------------------------
(* Properties of _generate_summary, continued *)

\* the trimmed pieces between terminators that have more than 10 characters
Qualifying ==
    LET pieces == Split(content, Terminators)
    IN  SelectSeq([k \in 1..Len(pieces) |-> Strip(pieces[k])],
                  LAMBDA t : Len(t) > MinSentenceLength)

\* the first j sentences of q, each followed by the full-width period
Accumulated(q, j) == Join([i \in 1..j |-> q[i] \o U3002], "")

\* s is what the claim gives for the budget: the input itself when it is
\* short, else the first j qualifying sentences, where each of them fitted
\* when it was added and the next one, if any, does not
SummaryFor(s, budget) ==
    IF content = "" \/ Len(content) < SummaryMinContent THEN s = content
    ELSE LET q == Qualifying
         IN  \E j \in 0..Len(q) :
                /\ s = Accumulated(q, j)
                /\ \A i \in 1..j : Len(Accumulated(q, i - 1)) + Len(q[i]) <= budget
                /\ j < Len(q) => Len(Accumulated(q, j)) + Len(q[j + 1]) > budget

\* C22: an input that is empty or shorter than 50 characters is returned
\* unchanged; otherwise the summary is the concatenation, in order, of a prefix
\* of the qualifying sentences, each followed by the full-width period, and the
\* prefix ends at the first qualifying sentence that does not fit into
\* max_length: no later sentence is taken.
C22_SummaryIsPrefix ==
    /\ pc \in { "first", "done" } => SummaryFor(summary_1, max_length_1)
    /\ pc = "done" => SummaryFor(summary_2, max_length_2)

\* the second sentence does not fit into 38 characters, the third one would
C22_Witness ==
    /\ pc = "done" /\ max_length_1 = 38
    /\ content = " a sentence of some length . a sentence of some length .eleven char."
    /\ Len(Qualifying) = 3
    /\ summary_1 = "a sentence of some length" \o U3002

\* C23: for a body text of at least 50 characters and a max_length that is not
\* negative, the summary, full-width periods included, has at most max_length
\* characters.
C23_SummaryBounded ==
    /\ (pc \in { "first", "done" } /\ Len(content) >= SummaryMinContent /\ max_length_1 >= 0)
           => Len(summary_1) <= max_length_1
    /\ (pc = "done" /\ Len(content) >= SummaryMinContent /\ max_length_2 >= 0)
           => Len(summary_2) <= max_length_2

-----------------------------------------------------------------------------
(* Properties of the renderers, continued *)

\* C24: in a Markdown rendering no emoji of the set comes directly after a
\* character that is not whitespace, also when several emoji stand in a row.
\* (The header and footer lines of the metadata of the model hold no emoji, so
\* an emoji of the rendering is one of its body.)
C24_EmojiSpacing ==
    RenderedBy(MARKDOWN) =>
        \A p \in 2..Len(rendered) :
            Ch(rendered, p) = EMOJI => IsSpace(Ch(rendered, p - 1))

\* the last position of s where p stands (0: nowhere)
LastAt(s, p) ==
    IF { i \in 1..Len(s) : At(s, i, p) } = {} THEN 0
    ELSE CHOOSE i \in 1..Len(s) :
             At(s, i, p) /\ \A j \in (i + 1)..Len(s) : ~At(s, j, p)

PanelOpen == "    <div class=\"content\">\n        "
PanelClose == "\n    </div>"

\* the content panel of an HTML rendering: what stands between the opening of
\* div.content and its closing, which is followed by the statistics panel or
\* by the end of the body
ContentPanel ==
    LET after == IF HasStatistics(metadata)
                 THEN LastAt(rendered, "\n    <div class=\"stats\">")
                 ELSE LastAt(rendered, "\n</body>")
    IN  Slice(rendered, LastAt(rendered, PanelOpen) + Len(PanelOpen),
              after - Len(PanelClose) - 1)

ConverterTags ==
    { "<h1>", "</h1>", "<h2>", "</h2>", "<h3>", "</h3>", "<strong>", "</strong>",
      "<em>", "</em>", "<p>", "</p>", "<br>" }

\* the escaped form of each character html.escape replaces
EntityOf ==
    [c \in { "&", "<", ">", "\"", "'" } |->
        CASE c = "&" -> "&amp;" [] c = "<" -> "&lt;" [] c = ">" -> "&gt;"
          [] c = "\"" -> "&quot;" [] c = "'" -> "&#x27;"]

Entities == { EntityOf[c] : c \in DOMAIN EntityOf }

\* how many times p stands in s (for a p that cannot overlap itself)
Occurrences(s, p) == Cardinality({ i \in 1..Len(s) : At(s, i, p) })

\* C25: in the content panel of an HTML rendering every '<', '>', '&' and
\* quote of the input stands in its escaped form only: the panel has no quote
\* character, every '&' opens one of the five entities, each entity occurs as
\* often as its character does in the input, and every '<' and '>' of the
\* panel is the first or last character of a tag the converter writes (h1, h2,
\* h3, strong, em, p, br).
C25_HtmlEscaped ==
    RenderedBy(HTML) =>
        LET panel == ContentPanel
        IN  /\ \A p \in 1..Len(panel) :
                  /\ Ch(panel, p) \notin { "\"", "'" }
                  /\ Ch(panel, p) = "&" => \E e \in Entities : At(panel, p, e)
                  /\ Ch(panel, p) = "<" => \E t \in ConverterTags : At(panel, p, t)
                  /\ Ch(panel, p) = ">" =>
                         \E t \in ConverterTags : At(panel, p - Len(t) + 1, t)
            /\ \A c \in DOMAIN EntityOf :
                  Occurrences(panel, EntityOf[c]) = Occurrences(text, c)

\* a heading with a tag written in it, rendered with metadata
C25_Witness ==
    /\ RenderedBy(HTML) /\ text = "# <b>" /\ metadata # << >>
    /\ ContentPanel = "<h1>&lt;b&gt;</h1>"

-----------------------------------------------------------------------------
(* format_content called twice on the same arguments, other calls in between *)

MaxOthers == 1     \* calls made between the two

OtherTexts == { "", "plain" }

InitRepeat ==
    /\ text \in RenderTexts /\ metadata \in RenderMetadatas
    /\ entry = "format_content" /\ format_type \in FormatArguments
    /\ render_fault \in BOOLEAN
    /\ now = "" /\ rendered = ""
    /\ render_caught = FALSE /\ render_escaped = FALSE
    /\ source_url = "" /\ template = "" /\ extra = << >>
    /\ RepeatIdle
    /\ pc = "ready"
    /\ ExtractIdle /\ FilterIdle /\ SummaryIdle /\ TextsIdle /\ ThreadIdle /\ AgentIdle

\* formatter.format_content(text, format_type, metadata), called at time t
FirstCall ==
    /\ pc = "ready"
    /\ \E t \in Timestamps :
          LET out == format_content(text, format_type, metadata, t, render_fault)
          IN  /\ now' = t
              /\ rendered' = out.returned
              /\ render_caught' = out.caught
              /\ render_escaped' = out.escaped
    /\ pc' = "first"
    /\ UNCHANGED << text, metadata, entry, format_type, render_fault,
                    source_url, template, extra, repeatVars,
                    min_text_length, max_text_length, html_content,
                    base_url, result, caught, escaped, raised_in, readable,
                    filterVars, summaryVars, textsVars, threadVars, agentVars >>

\* a call of the same formatter on other arguments
OtherCall ==
    /\ pc = "first" /\ others < MaxOthers
    /\ \E c \in OtherTexts, f \in { MARKDOWN, JSON }, t \in Timestamps :
          other_rendered' = format_content(c, f, << >>, t, FALSE).returned
    /\ others' = others + 1
    /\ UNCHANGED << rendered_2, now_2, pc, renderVars, extractVars,
                    filterVars, summaryVars, textsVars, threadVars, agentVars >>

\* formatter.format_content(text, format_type, metadata) again, at time t
SecondCall ==
    /\ pc = "first"
    /\ \E t \in Timestamps :
          LET out == format_content(text, format_type, metadata, t, render_fault)
          IN  /\ now_2' = t
              /\ rendered_2' = out.returned
              /\ render_caught' = out.caught
              /\ render_escaped' = out.escaped
    /\ pc' = "done"
    /\ UNCHANGED << text, metadata, entry, format_type, render_fault,
                    now, rendered, others, other_rendered,
                    source_url, template, extra,
                    min_text_length, max_text_length, html_content,
                    base_url, result, caught, escaped, raised_in, readable,
                    filterVars, summaryVars, textsVars, threadVars, agentVars >>

NextRepeat == FirstCall \/ OtherCall \/ SecondCall

SpecRepeat == InitRepeat /\ [][NextRepeat]_vars

\* C26 as stated: two calls with the same text, format and metadata return the
\* same string for each of the four formats, whatever the time of the calls
\* and whatever calls were made in between, and no call changes the metadata
\* mapping.
C26_RenderPure ==
    /\ [](pc = "done" => rendered_2 = rendered)
    /\ [][metadata' = metadata]_vars

\* two JSON renderings that differ in the value of "timestamp" only, which is
\* the time of each call
SameButTimestamp ==
    LET a == Loads(rendered)
        b == Loads(rendered_2)
    IN  /\ a.kind = "obj" /\ b.kind = "obj"
        /\ Len(a.members) = Len(b.members)
        /\ \A k \in 1..Len(a.members) :
              /\ a.members[k][1] = b.members[k][1]
              /\ a.members[k][1] # "timestamp" => a.members[k][2] = b.members[k][2]
        /\ Member(a, "timestamp") = JStr(now)
        /\ Member(b, "timestamp") = JStr(now_2)

\* C26, amended: two calls with the same text, format and metadata return the
\* same string for Markdown, HTML and plain text, and for JSON two strings that
\* are the same except for the value of the timestamp field, which is the time
\* of each call; calls made in between change nothing, and no call changes the
\* metadata mapping.
C26_RenderPureButTimestamp ==
    /\ [](pc = "done" =>
             IF RenderedBy(JSON) THEN SameButTimestamp ELSE rendered_2 = rendered)
    /\ [][metadata' = metadata]_vars

\* two JSON renderings of the same text and metadata at different times, with
\* another call between them
C26_Witness ==
    /\ RenderedBy(JSON) /\ metadata # << >> /\ others > 0
    /\ now # now_2 /\ rendered # rendered_2

-----------------------------------------------------------------------------
(* Calls of process_html and format_content on one ContentProcessor and one
   OutputFormatter, interleaved statement by statement.  What a call keeps
   between its statements (soup, the values of the record under construction)
   is local to the call. *)

MaxThreads == 2     \* calls running side by side

Threads == 1..MaxThreads

BadLinkDoc == LinkDoc(2, "//[x", "b.html", 1, "i.png")

\* the arguments of a process_html call
ExtractCalls ==
    { [kind |-> "extract", doc |-> d, base |-> "https://example.com/a/",
       text |-> "", format_type |-> None]
      : d \in { TitleDoc("Visible", "Hidden", Absent, Absent),
                FilterDoc("div", << "sidebar" >>, NoCls),
                BadLinkDoc } }

\* the arguments of a format_content call (no metadata)
RenderCalls ==
    { [kind |-> "render", doc |-> << >>, base |-> "", text |-> c, format_type |-> f]
      : c \in { "Done" \o EMOJI }, f \in { None, JSON } }

\* a call before its first statement
NewCall(arguments) ==
    [arguments |-> arguments, pos |-> "start", soup |-> << >>, gone |-> {},
     fields |-> EmptyRecord, returned |-> EmptyRecord, rendering |-> "", at |-> ""]

\* the tree a statement of call th works on: the local variable soup of a call
\* that keeps the tree of the call that parsed last
LocalSoup_Shared(cs, th) ==
    LET parsed == { u \in DOMAIN cs : cs[u].soup # << >> }
    IN  IF parsed = {} THEN << >>
        ELSE cs[CHOOSE u \in parsed : \A v \in parsed : v <= u].soup

\* the tree a statement of call th works on: the local variable soup
LocalSoup(cs, th) == cs[th].soup

\* the statements of process_html after the parse, on the tree d: the call c
\* after its next statement
ExtractStep(c, d, minlen, maxlen) ==
    CASE c.pos = "parsed" ->
           IF remove_unwanted_elements(d, {}).raised THEN [c EXCEPT !.pos = "except"]
           ELSE [c EXCEPT !.pos = "filtered", !.gone = remove_unwanted_elements(d, {}).gone]
      [] c.pos = "filtered" ->
           [c EXCEPT !.pos = "title", !.fields.title = extract_title(d, c.gone)]
      [] c.pos = "title" ->
           [c EXCEPT !.pos = "description",
                     !.fields.description = extract_description(d, c.gone)]
      [] c.pos = "description" ->
           [c EXCEPT !.pos = "main_content",
                     !.fields.main_content = extract_main_content(d, c.gone, minlen, maxlen)]
      [] c.pos = "main_content" ->
           [c EXCEPT !.pos = "keywords", !.fields.keywords = extract_keywords(d, c.gone)]
      [] c.pos = "keywords" ->
           IF LinksRaise(d, c.gone, c.arguments.base) THEN [c EXCEPT !.pos = "except"]
           ELSE [c EXCEPT !.pos = "links",
                          !.fields.links = extract_links(d, c.gone, c.arguments.base)]
      [] c.pos = "links" ->
           IF ImagesRaise(d, c.gone, c.arguments.base) THEN [c EXCEPT !.pos = "except"]
           ELSE [c EXCEPT !.pos = "images",
                          !.fields.images = extract_images(d, c.gone, c.arguments.base)]
      [] c.pos = "images" ->
           [c EXCEPT !.pos = "summary",
                     !.fields.summary = generate_summary(c.fields.main_content,
                                                         DefaultSummaryLength)]
      [] c.pos = "summary" -> [c EXCEPT !.pos = "done", !.returned = c.fields]
      [] c.pos = "except"  -> [c EXCEPT !.pos = "done", !.returned = EmptyRecord]

InitThreads ==
    /\ calls \in [Threads -> { NewCall(a) : a \in ExtractCalls \cup RenderCalls }]
    /\ min_text_length \in { 1, 10 } /\ max_text_length = 50000
    /\ html_content = << >> /\ base_url = "" /\ result = EmptyRecord
    /\ caught = FALSE /\ escaped = FALSE /\ raised_in = "none" /\ readable = ""
    /\ pc = "ready"
    /\ FilterIdle /\ SummaryIdle /\ RenderIdle /\ TextsIdle /\ RepeatIdle /\ AgentIdle

ThreadFrame ==
    UNCHANGED << extractVars, filterVars, summaryVars, renderVars, textsVars, repeatVars, agentVars >>

\* soup = BeautifulSoup(html_content, 'html.parser') in call th
Parse(th) ==
    /\ calls[th].arguments.kind = "extract" /\ calls[th].pos = "start"
    /\ calls' = [calls EXCEPT ![th].pos = "parsed", ![th].soup = calls[th].arguments.doc]
    /\ ThreadFrame

\* the next statement of process_html in call th
Extract(th) ==
    /\ calls[th].arguments.kind = "extract"
    /\ calls[th].pos \notin { "start", "done" }
    /\ calls' = [calls EXCEPT ![th] = ExtractStep(calls[th], LocalSoup(calls, th),
                                                  min_text_length, max_text_length)]
    /\ ThreadFrame

\* format_content in call th, up to the dispatch: the default format is read
Default(th) ==
    /\ calls[th].arguments.kind = "render" /\ calls[th].pos = "start"
    /\ calls' = [calls EXCEPT ![th].pos = "dispatch",
                              ![th].arguments.format_type =
                                  Effective(calls[th].arguments.format_type)]
    /\ ThreadFrame

\* format_content in call th, from the dispatch on, at time t
Render(th) ==
    /\ calls[th].arguments.kind = "render" /\ calls[th].pos = "dispatch"
    /\ \E t \in Timestamps :
          calls' = [calls EXCEPT
                       ![th].pos = "done", ![th].at = t,
                       ![th].rendering =
                           format_content(calls[th].arguments.text,
                                          calls[th].arguments.format_type,
                                          << >>, t, FALSE).returned]
    /\ ThreadFrame

NextThreads == \E th \in Threads : Parse(th) \/ Extract(th) \/ Default(th) \/ Render(th)

SpecThreads == InitThreads /\ [][NextThreads]_vars

\* what call th returns when it runs alone
Alone(th) ==
    LET a == calls[th].arguments
    IN  IF a.kind = "extract"
        THEN [returned |-> process_html(a.doc, a.base, min_text_length, max_text_length,
                                        "none").record,
              rendering |-> ""]
        ELSE [returned |-> EmptyRecord,
              rendering |-> format_content(a.text, a.format_type, << >>, calls[th].at,
                                           FALSE).returned]

\* C27: when process_html and format_content calls on the same instances are
\* interleaved statement by statement, each call returns what it returns when
\* it runs alone on its own arguments (for a JSON rendering: at the same
\* time); a statement of one call writes nothing another call holds and no
\* attribute of the instances.
C27_CallsIndependent ==
    /\ [](\A th \in Threads :
             calls[th].pos = "done" =>
                 /\ calls[th].returned = Alone(th).returned
                 /\ calls[th].rendering = Alone(th).rendering)
    /\ [][/\ \E th \in Threads : \A u \in Threads \ { th } : calls'[u] = calls[u]
          /\ min_text_length' = min_text_length
          /\ max_text_length' = max_text_length]_vars

\* two process_html calls on different pages have both returned, one with the
\* title of its page and one with the empty record of a failed extraction
C27_Witness ==
    /\ \A th \in Threads : calls[th].pos = "done"
    /\ calls[1].arguments.kind = "extract" /\ calls[2].arguments.kind = "extract"
    /\ calls[1].arguments.doc # calls[2].arguments.doc
    /\ calls[1].returned.title = "Visible" /\ calls[2].returned = EmptyRecord

-----------------------------------------------------------------------------
(* Properties of process_html, continued: what the Element Filter hides *)

\* element i is named by the tag denylist, or its class names, joined by spaces
\* and lower-cased, contain a keyword of the class denylist
Denied(i) ==
    /\ html_content[i].tag # "#text"
    /\ \/ \E k \in 1..Len(remove_tags) : html_content[i].tag = remove_tags[k]
       \/ \E k \in 1..Len(remove_classes) :
             Contains(Lower(Join(html_content[i].cls, " ")), remove_classes[k])

\* the denied elements and everything below them
Hidden ==
    LET denied == { a \in 1..Len(html_content) : Denied(a) }
    IN  { i \in 1..Len(html_content) : \E a \in denied : IsWithin(html_content, a, i) }

\* the page written without the nodes of the set hidden
Pruned(hidden) ==
    LET keep == Indices(Len(html_content), LAMBDA i : i \notin hidden)
        moved == [i \in 0..Len(html_content) |->
                     Cardinality({ j \in 1..i : j \notin hidden })]
    IN  [k \in 1..Len(keep) |->
            [html_content[keep[k]] EXCEPT !.parent = moved[@]]]

\* C28: no element that matches the tag denylist or the class denylist, and no
\* descendant of one, gives text, a link or an image to any field of the record
\* process_html returns: the record is the empty one, or the one extracted from
\* the page without these subtrees.
C28_FilteredInvisible ==
    pc = "done" =>
        LET hidden == Hidden
        IN  hidden # {} =>
                IF caught THEN result = EmptyRecord
                ELSE result = BuildRecord(Pruned(hidden), {}, base_url,
                                          min_text_length, max_text_length)

\* a page with a box of class "Shadow" that holds a paragraph, a link, an
\* image and a heading: the record has the link and the text from outside the
\* box only
C28_Witness ==
    /\ pc = "done" /\ ~caught
    /\ \E i \in Hidden : html_content[i].cls = << "Shadow" >>
    /\ \E i \in Hidden : html_content[i].tag = "a"
    /\ \E i \in Hidden : html_content[i].tag = "img"
    /\ Len(result.links) = 1 /\ result.images = << >>
    /\ result.main_content = "text outside the box"

-----------------------------------------------------------------------------
(* WebContentAgent.process_url: the stages of one call.  The crawler, the
   prompt manager and the generation client are the environment: what they
   return, and whether a call raises, is chosen freely.  The messages, Chinese
   in the source, are written in English. *)

StageOrder == << "fetch", "extract", "prompt", "generate", "metadata", "render" >>

MinReadable == 50
max_retries == 3

TheUrl == "http://x/"
TheTemplate == "summary"

CrawlFailed      == "crawl failed: "
ContentTooShort  == "extracted content too short or empty"
GenerationFailed == "generation failed: "
ExceptionCaught  == "exception while processing: "

\* a test of the length that does not trim
ReadableTooShort_Untrimmed(s) == s = "" \/ Len(s) < MinReadable

\* not readable_content or len(readable_content.strip()) < 50
ReadableTooShort(s) == s = "" \/ Len(Strip(s)) < MinReadable

\* every stage is followed by the next one, whatever it returned
After_Continue(stage, succeeded) ==
    IF stage = "render" THEN "returned"
    ELSE StageOrder[(CHOOSE k \in 1..Len(StageOrder) : StageOrder[k] = stage) + 1]

\* where process_url goes after a stage: to the next one, or to a return
\* statement when the stage did not succeed or was the last one
After(stage, succeeded) ==
    IF ~succeeded \/ stage = "render" THEN "returned"
    ELSE StageOrder[(CHOOSE k \in 1..Len(StageOrder) : StageOrder[k] = stage) + 1]

\* the dictionary process_url starts with (url, template and output_format,
\* which are never changed, left out)
NewResult == [success |-> FALSE, content |-> "", error |-> "", raw_content |-> ""]

OutputFormats == { "markdown", "HTML", "json", "pdf" }
ReadableTexts ==
    { "", Rep("r", MinReadable - 1), " " \o Rep("r", MinReadable - 1) \o " \n",
      Rep("r", MinReadable), "  " \o Rep("r", MinReadable) }
GeneratedTexts == { "", "# Generated\n\ntext" }
Messages == { "", "timeout" }

crawl_metadata == << << "status_code", JInt(200) >> >>
ai_metadata == << << "model", JStr("qwen-max") >> >>

InitAgent ==
    /\ position = "fetch" /\ trace = << >> /\ failed = ""
    /\ output_format \in OutputFormats
    /\ crawl_success = FALSE /\ readable_content = "" /\ ai_success = FALSE
    /\ generated_content = "" /\ posts = 0 /\ agent_metadata = << >>
    /\ agent_result = NewResult /\ agent_escaped = FALSE
    /\ pc = "ready"
    /\ ExtractIdle /\ FilterIdle /\ SummaryIdle /\ RenderIdle /\ TextsIdle
    /\ RepeatIdle /\ ThreadIdle

AgentFrame ==
    UNCHANGED << output_format, extractVars, filterVars, summaryVars, renderVars,
                 textsVars, repeatVars, threadVars >>

\* the stage in hand is entered
Enter(stage) == position = stage /\ trace' = Append(trace, stage)

\* the stage in hand returned; error is the message of an early return
Leave(stage, succeeded, error) ==
    /\ position' = After(stage, succeeded)
    /\ failed' = IF succeeded THEN failed ELSE stage
    /\ agent_result' = IF succeeded THEN agent_result
                       ELSE [agent_result EXCEPT !.error = error]
    /\ agent_escaped' = FALSE

\* a call of the stage in hand raised: except Exception as e, lines 164-168
Except(stage) ==
    /\ position = stage /\ stage # "returned"
    /\ trace' = Append(trace, stage)
    /\ \E e \in Messages : agent_result' = [agent_result EXCEPT !.error = ExceptionCaught \o e]
    /\ position' = "returned" /\ failed' = stage
    /\ agent_escaped' = FALSE
    /\ UNCHANGED << crawl_success, readable_content, ai_success, generated_content,
                    posts, agent_metadata >>
    /\ AgentFrame

\* 1. self.crawler.crawl_url(url)
Fetch ==
    /\ Enter("fetch")
    /\ \E ok \in BOOLEAN, msg \in Messages :
          /\ crawl_success' = ok
          /\ Leave("fetch", ok, CrawlFailed \o msg)
    /\ UNCHANGED << readable_content, ai_success, generated_content, posts, agent_metadata >>
    /\ AgentFrame

\* 2. self.processor.extract_readable_content(html_content, url)
ExtractReadable ==
    /\ Enter("extract")
    /\ \E r \in ReadableTexts :
          /\ readable_content' = r
          /\ Leave("extract", ~ReadableTooShort(r), ContentTooShort)
    /\ UNCHANGED << crawl_success, ai_success, generated_content, posts, agent_metadata >>
    /\ AgentFrame

\* 3. self.prompt_manager.format_prompts(template_name, readable_content, **kwargs)
FormatPrompts ==
    /\ Enter("prompt")
    /\ Leave("prompt", TRUE, "")
    /\ UNCHANGED << crawl_success, readable_content, ai_success, generated_content,
                    posts, agent_metadata >>
    /\ AgentFrame

\* 4. self.ai_client.generate_text(system_prompt, user_prompt, **kwargs): one
\* call, in which the session of the client sends the request once and again
\* after a 429 or 5xx answer, up to max_retries more times
GenerateText ==
    /\ Enter("generate")
    /\ \E ok \in BOOLEAN, g \in GeneratedTexts, msg \in Messages,
          n \in 1..(max_retries + 1) :
          /\ ai_success' = ok
          /\ generated_content' = IF ok THEN g ELSE msg
          /\ posts' = posts + n
          /\ Leave("generate", ok, GenerationFailed \o msg)
    /\ UNCHANGED << crawl_success, readable_content, agent_metadata >>
    /\ AgentFrame

\* 5. self.formatter.add_metadata(...), metadata.update(crawl_metadata),
\* metadata.update(ai_metadata)
AssembleMetadata ==
    /\ Enter("metadata")
    /\ \E t \in Clocks :
          agent_metadata' =
              DictUpdate(DictUpdate(add_metadata(generated_content, TheUrl, TheTemplate,
                                                 << >>, t),
                                    crawl_metadata, 1),
                         ai_metadata, 1)
    /\ Leave("metadata", TRUE, "")
    /\ UNCHANGED << crawl_success, readable_content, ai_success, generated_content, posts >>
    /\ AgentFrame

\* the format_enum chain, self.formatter.format_content(...) and 6. result.update
RenderResult ==
    /\ Enter("render")
    /\ \E t \in Timestamps, fault_ \in BOOLEAN :
          agent_result' =
              [agent_result EXCEPT
                  !.success = TRUE,
                  !.content = format_content(generated_content, FormatEnum(output_format),
                                             agent_metadata, t, fault_).returned,
                  !.raw_content = generated_content]
    /\ position' = After("render", TRUE)
    /\ agent_escaped' = FALSE
    /\ UNCHANGED << failed, crawl_success, readable_content, ai_success, generated_content,
                    posts, agent_metadata >>
    /\ AgentFrame

NextAgent ==
    \/ Fetch \/ ExtractReadable \/ FormatPrompts \/ GenerateText
    \/ AssembleMetadata \/ RenderResult
    \/ \E stage \in { StageOrder[k] : k \in 1..Len(StageOrder) } : Except(stage)

SpecAgent == InitAgent /\ [][NextAgent]_vars

\* process_url has returned
AgentReturned == position = "returned"

\* C29: process_url never raises; the result has success = True exactly when
\* the fetch succeeded, the readable text has at least 50 characters after
\* trimming, the generation succeeded and no stage raised; in every other
\* case success is False, the error message is not empty and content is the
\* empty string.
C29_SuccessExactly ==
    AgentReturned =>
        /\ ~agent_escaped
        /\ agent_result.success <=>
              /\ crawl_success
              /\ Len(Strip(readable_content)) >= MinReadable
              /\ ai_success
              /\ failed = ""
        /\ ~agent_result.success => agent_result.error # "" /\ agent_result.content = ""

\* a readable text of 50 characters inside outer whitespace went through and
\* the call succeeded
C29_Witness ==
    /\ AgentReturned /\ agent_result.success
    /\ readable_content = "  " \o Rep("r", MinReadable)
    /\ agent_result.content # ""

\* the stage at place k of the trace succeeded
Succeeded(k) ==
    /\ failed # trace[k]
    /\ CASE trace[k] = "fetch"    -> crawl_success
         [] trace[k] = "extract"  -> Len(Strip(readable_content)) >= MinReadable
         [] trace[k] = "generate" -> ai_success
         [] OTHER                 -> TRUE

\* C30: the stages run in the order fetch, extraction, prompt formatting, text
\* generation, metadata assembly, rendering, each at most once and only when
\* every earlier one succeeded: the generation client is called at most once,
\* never after a failed fetch or a readable text of fewer than 50 characters,
\* and the renderer never after a failed generation.
C30_FailFast ==
    /\ Len(trace) <= Len(StageOrder)
    /\ trace = SubSeq(StageOrder, 1, Len(trace))
    /\ \A k \in 1..(Len(trace) - 1) : Succeeded(k)
    /\ Cardinality({ k \in 1..Len(trace) : trace[k] = "generate" }) <= 1
    /\ posts > 0 => \E k \in 1..Len(trace) : trace[k] = "generate"

\* a call that stopped at a failed generation: four stages, no rendering
C30_Witness ==
    /\ AgentReturned /\ failed = "generate" /\ ~ai_success
    /\ trace = SubSeq(StageOrder, 1, 4) /\ posts = max_retries + 1
    /\ ~agent_result.success

====
